---- MODULE Spec2Model ----
(***************************************************************************)
(* Hook registry, stage executor and prompt pipeline of albumentations-mcp *)
(*   src/src/hooks/__init__.py            HookRegistry, execute_stage      *)
(*   src/src/albumentations_mcp/pipeline.py  parse_prompt_with_hooks       *)
(*                                                                         *)
(* HookContext objects live on a heap (a sequence of records); a context   *)
(* is referred to by its index, so that "the same object" and "an equal    *)
(* copy" are different things, as they are in Python.  A hook's execute is *)
(* polymorphic code outside the registry: its behaviour is drawn from      *)
(* HookOutcome each time a hook completes.                                 *)
(***************************************************************************)
EXTENDS Integers, Sequences, FiniteSets, TLC

\* Bound: the total number of hooks registered over all stages.
MaxHooks == 2

\* ------------------------------------------------------------------------
\* Data model
\* ------------------------------------------------------------------------

\* class HookStage(str, Enum)
HookStage == {"pre_mcp", "post_mcp", "pre_transform", "post_transform", "post_transform_verify", "post_transform_classify", "pre_save", "post_save"}

\* The stages register_hook is called with in the model: the two stages the
\* pipeline drives and one stage it does not.
RegStages == {"pre_mcp", "post_mcp", "pre_save"}

\* Hook names and fault / failure descriptions used as inputs.
HookNames == {"A", "B"}

Reasons == {"boom"}

\* class BaseHook: name and the critical flag fixed at construction.
BaseHook == [name : HookNames, critical : BOOLEAN]

\* Python's None, as a context reference and as a printed error.
NoneCtx == 0

NoneStr == "None"

\* @dataclass HookContext (with __post_init__ defaults).
HookContext(session_id, original_prompt, metadata, errors) ==
    [session_id |-> session_id, original_prompt |-> original_prompt, parsed_transforms |-> <<>>, metadata |-> metadata, errors |-> errors, warnings |-> <<>>]

\* class HookResult
HookResult(success, context, error, should_continue) ==
    [success |-> success, context |-> context, error |-> error, should_continue |-> should_continue]

\* The value of `result` before any execute_stage call has returned.
NoResult == HookResult(FALSE, NoneCtx, NoneStr, FALSE)

\* What one invocation of hook.execute may do: raise with a description, or
\* return a HookResult with any success / should_continue, carrying no
\* context, the incoming context object, or a new context object.
HookOutcome ==
    [kind : {"raise"}, success : {FALSE}, error : Reasons, should_continue : {TRUE}, ctx : {"none"}]
    \cup [kind : {"return"}, success : {TRUE}, error : {NoneStr}, should_continue : BOOLEAN, ctx : {"none", "same", "copy"}]
    \cup [kind : {"return"}, success : {FALSE}, error : Reasons, should_continue : BOOLEAN, ctx : {"none", "same", "copy"}]

VARIABLES
    hooks,      \* HookRegistry._hooks : stage -> list of hooks
    heap,       \* the HookContext objects, by reference
    mode,       \* "idle" | "direct" (execute_stage called) | "pipeline"
    pc,         \* "idle" | "await" (a hook is running) | "returned" | "done" | "raised" (an exception left the function)
    stage,      \* execute_stage: its stage argument
    idx,        \* execute_stage: position of the for loop in the hook list
    context,    \* execute_stage: its local variable `context`
    result,     \* the HookResult the last execute_stage call returned
    pctx,       \* parse_prompt_with_hooks: its local variable `context`
    response,   \* the dict parse_prompt_with_hooks returned
    entry,      \* the context given to the running execute_stage call, and its content then
    started,    \* history: the hook invocations started, in order
    finished,   \* history: the hook invocations completed, in order
    parsed,     \* history: the parse_prompt calls of the run, in order
    regop,      \* the registry operation last performed, with what it returned
    global_seed,  \* seed_manager._global_seed
    seedop,     \* the seed-manager operation last performed: its argument or what it returned
    proc,       \* the frame of the process_image call in progress, and its result
    runs,       \* the frames of two concurrent parse_prompt_with_hooks runs
    call,       \* the compiler method last called on its own, with what it returned
    last        \* the frame of an earlier process_image call the caller kept to compare

vars == <<hooks, heap, mode, pc, stage, idx, context, result, pctx, response, entry, started, finished, parsed, regop, global_seed, seedop, proc, runs, call, last>>

\* The frame of the single run (execute_stage and parse_prompt_with_hooks).
runVars == <<heap, mode, pc, stage, idx, context, result, pctx, response, entry, started, finished, parsed>>

\* What no step of the single run touches.
offRunVars == <<regop, global_seed, seedop, proc, runs, call, last>>

\* ------------------------------------------------------------------------
\* Helpers on the heap
\* ------------------------------------------------------------------------

\* AppendError as an assignment: the entries already there are lost.
AppendError_Replaces(hp, c, msg) ==
    [hp EXCEPT ![c].errors = <<msg>>]

\* context.errors.append(msg) on the object c
AppendError(hp, c, msg) ==
    [hp EXCEPT ![c].errors = Append(@, msg)]

\* The observable effect a hook named n leaves on a context record.
HookMark(n) == "hook:" \o n

Marked(rec, n) ==
    [rec EXCEPT !.metadata = @ \cup {HookMark(n)}, !.warnings = Append(@, HookMark(n))]

\* hook.execute(context): the heap after the hook ran, whether it raised,
\* and the HookResult it returned.  A hook that returns leaves its mark on
\* the context it hands on; with ctx = "copy" that is a new object built
\* from the incoming one, which is left as it was.
HookExecute(hook, out, c, hp) ==
    IF out.kind = "raise"
    THEN [heap |-> hp, raised |-> TRUE, error |-> out.error, result |-> NoResult]
    ELSE IF out.ctx = "copy"
    THEN [heap |-> Append(hp, Marked(hp[c], hook.name)), raised |-> FALSE, error |-> NoneStr,
          result |-> HookResult(out.success, Len(hp) + 1, out.error, out.should_continue)]
    ELSE [heap |-> [hp EXCEPT ![c] = Marked(@, hook.name)], raised |-> FALSE, error |-> NoneStr,
          result |-> HookResult(out.success, IF out.ctx = "same" THEN c ELSE NoneCtx, out.error, out.should_continue)]

\* ------------------------------------------------------------------------
\* HookRegistry.execute_stage
\* ------------------------------------------------------------------------

\* error_msg of the declared-failure branch and of the except branch
FailedMsg(name, error) == "Hook " \o name \o " failed: " \o error

RaisedMsg(name, error) == "Hook " \o name \o " raised exception: " \o error

\* StageEntry reporting a stage without hooks as a failure.
StageEntry_EmptyIsFailure(hs, c) ==
    IF hs = <<>>
    THEN [returns |-> TRUE, result |-> HookResult(FALSE, c, NoneStr, FALSE)]
    ELSE [returns |-> FALSE, result |-> NoResult]

\* Lines 117-121: the early return for a stage without hooks.
StageEntry(hs, c) ==
    IF hs = <<>>
    THEN [returns |-> TRUE, result |-> HookResult(TRUE, c, NoneStr, TRUE)]
    ELSE [returns |-> FALSE, result |-> NoResult]

\* LoopBody with the except branch never returning: it forgets the
\* `if hook.critical` test of lines 160-169.
LoopBody_RaiseNeverStops(hook, x, c) ==
    IF x.raised
    THEN LET msg == RaisedMsg(hook.name, x.error)
             hp1 == AppendError(x.heap, c, msg)
         IN  [heap |-> hp1, context |-> c, returns |-> FALSE, result |-> NoResult]
    ELSE LET r == x.result
             msg == FailedMsg(hook.name, r.error)
             hp1 == IF r.success THEN x.heap ELSE AppendError(x.heap, c, msg)
             c1 == IF r.context # NoneCtx THEN r.context ELSE c
         IN  IF ~r.success /\ hook.critical
             THEN [heap |-> hp1, context |-> c, returns |-> TRUE, result |-> HookResult(FALSE, c, msg, FALSE)]
             ELSE IF ~r.should_continue
             THEN [heap |-> hp1, context |-> c1, returns |-> TRUE, result |-> HookResult(TRUE, c1, NoneStr, FALSE)]
             ELSE [heap |-> hp1, context |-> c1, returns |-> FALSE, result |-> NoResult]

\* LoopBody without lines 149-153: should_continue=False is ignored.
LoopBody_IgnoresStop(hook, x, c) ==
    IF x.raised
    THEN LET msg == RaisedMsg(hook.name, x.error)
             hp1 == AppendError(x.heap, c, msg)
         IN  IF hook.critical
             THEN [heap |-> hp1, context |-> c, returns |-> TRUE, result |-> HookResult(FALSE, c, msg, FALSE)]
             ELSE [heap |-> hp1, context |-> c, returns |-> FALSE, result |-> NoResult]
    ELSE LET r == x.result
             msg == FailedMsg(hook.name, r.error)
             hp1 == IF r.success THEN x.heap ELSE AppendError(x.heap, c, msg)
             c1 == IF r.context # NoneCtx THEN r.context ELSE c
         IN  IF ~r.success /\ hook.critical
             THEN [heap |-> hp1, context |-> c, returns |-> TRUE, result |-> HookResult(FALSE, c, msg, FALSE)]
             ELSE [heap |-> hp1, context |-> c1, returns |-> FALSE, result |-> NoResult]

\* LoopBody without lines 146-147: a replacement context is never adopted.
LoopBody_KeepsOldContext(hook, x, c) ==
    IF x.raised
    THEN LET msg == RaisedMsg(hook.name, x.error)
             hp1 == AppendError(x.heap, c, msg)
         IN  IF hook.critical
             THEN [heap |-> hp1, context |-> c, returns |-> TRUE, result |-> HookResult(FALSE, c, msg, FALSE)]
             ELSE [heap |-> hp1, context |-> c, returns |-> FALSE, result |-> NoResult]
    ELSE LET r == x.result
             msg == FailedMsg(hook.name, r.error)
             hp1 == IF r.success THEN x.heap ELSE AppendError(x.heap, c, msg)
         IN  IF ~r.success /\ hook.critical
             THEN [heap |-> hp1, context |-> c, returns |-> TRUE, result |-> HookResult(FALSE, c, msg, FALSE)]
             ELSE IF ~r.should_continue
             THEN [heap |-> hp1, context |-> c, returns |-> TRUE, result |-> HookResult(TRUE, c, NoneStr, FALSE)]
             ELSE [heap |-> hp1, context |-> c, returns |-> FALSE, result |-> NoResult]

\* Lines 126-169: one iteration of the for loop, given what hook.execute did
\* (x = HookExecute(...)) with `context` = c.  Yields the heap, the new
\* value of `context`, and whether (and what) the iteration returns.
LoopBody(hook, x, c) ==
    IF x.raised
    THEN LET msg == RaisedMsg(hook.name, x.error)
             hp1 == AppendError(x.heap, c, msg)
         IN  IF hook.critical
             THEN [heap |-> hp1, context |-> c, returns |-> TRUE, result |-> HookResult(FALSE, c, msg, FALSE)]
             ELSE [heap |-> hp1, context |-> c, returns |-> FALSE, result |-> NoResult]
    ELSE LET r == x.result
             msg == FailedMsg(hook.name, r.error)
             hp1 == IF r.success THEN x.heap ELSE AppendError(x.heap, c, msg)
             c1 == IF r.context # NoneCtx THEN r.context ELSE c
         IN  IF ~r.success /\ hook.critical
             THEN [heap |-> hp1, context |-> c, returns |-> TRUE, result |-> HookResult(FALSE, c, msg, FALSE)]
             ELSE IF ~r.should_continue
             THEN [heap |-> hp1, context |-> c1, returns |-> TRUE, result |-> HookResult(TRUE, c1, NoneStr, FALSE)]
             ELSE [heap |-> hp1, context |-> c1, returns |-> FALSE, result |-> NoResult]

\* NextIndex that does not advance: the loop invokes the same hook again.
NextIndex_Stays(i) == i

\* Line 125: the for loop moves on to the next position of the list.
NextIndex(i) == i + 1

\* HasNext off by one: the loop leaves out the last hook of the list.
HasNext_SkipsLast(hs, i) == i + 1 < Len(hs)

\* Line 125: whether the for loop has another hook after position i.
HasNext(hs, i) == i < Len(hs)

\* Lines 171-172: the return after the loop.
StageCompleted(c) == HookResult(TRUE, c, NoneStr, TRUE)

\* A history entry for the hook at position i of stage s, given context c.
Invocation(s, i, c) == [stage |-> s, pos |-> i, hook |-> hooks[s][i], ctx |-> c]

\* execute_stage(s, c) up to its first await (or its return), on heap hp.
ExecuteStageEnter(s, c, hp) ==
    LET e == StageEntry(hooks[s], c)
    IN  /\ stage' = s
        /\ context' = c
        /\ entry' = [ctx |-> c, val |-> hp[c], from |-> Len(started)]
        /\ finished' = finished
        /\ IF e.returns
           THEN /\ result' = e.result
                /\ pc' = "returned"
                /\ idx' = 0
                /\ started' = started
           ELSE /\ result' = NoResult
                /\ pc' = "await"
                /\ idx' = 1
                /\ started' = Append(started, Invocation(s, 1, c))

\* The awaited hook completes with outcome out; the loop runs on to the next
\* await or to the return of execute_stage.  `hook` is the loop variable,
\* bound when the hook was started; the list is read again only to go on.
HookCompletes(out) ==
    /\ pc = "await"
    /\ LET hook == started[Len(started)].hook
           x == HookExecute(hook, out, context, heap)
           b == LoopBody(hook, x, context)
       IN  /\ heap' = b.heap
           /\ context' = b.context
           /\ finished' = Append(finished, [out |-> out, rctx |-> x.result.context])
           /\ IF b.returns
              THEN /\ result' = b.result
                   /\ pc' = "returned"
                   /\ UNCHANGED <<idx, started>>
              ELSE IF HasNext(hooks[stage], idx)
              THEN /\ idx' = NextIndex(idx)
                   /\ started' = Append(started, Invocation(stage, NextIndex(idx), b.context))
                   /\ UNCHANGED <<result, pc>>
              ELSE /\ result' = StageCompleted(b.context)
                   /\ pc' = "returned"
                   /\ UNCHANGED <<idx, started>>
    /\ UNCHANGED <<hooks, mode, stage, entry, pctx, response, parsed>>
    /\ UNCHANGED offRunVars

\* ------------------------------------------------------------------------
\* HookRegistry.register_hook
\* ------------------------------------------------------------------------

\* RegisterHook taking the name as a key: a hook of the stage with the same
\* name is replaced instead of the new hook being appended.
RegisterHook_ReplacesSameName(hs, s, hook) ==
    IF \E i \in DOMAIN hs[s] : hs[s][i].name = hook.name
    THEN [hs EXCEPT ![s] = [i \in DOMAIN hs[s] |-> IF hs[s][i].name = hook.name THEN hook ELSE hs[s][i]]]
    ELSE [hs EXCEPT ![s] = Append(@, hook)]

\* Lines 92-94: self._hooks[stage].append(hook)
RegisterHook(hs, s, hook) ==
    [hs EXCEPT ![s] = Append(@, hook)]

TotalHooks == Len(hooks["pre_mcp"]) + Len(hooks["post_mcp"]) + Len(hooks["pre_save"])

\* The registry is filled before a run starts (pipeline.py lines 29-37
\* register the default hooks in the constructor); MaxHooks caps its size.
register_hook(s, hook) ==
    /\ mode = "idle"
    /\ TotalHooks < MaxHooks
    /\ hooks' = RegisterHook(hooks, s, hook)
    /\ UNCHANGED <<heap, mode, pc, stage, idx, context, result, pctx, response, entry, started, finished, parsed>>
    /\ UNCHANGED offRunVars

\* ------------------------------------------------------------------------
\* A caller invoking execute_stage(s, context) directly
\* ------------------------------------------------------------------------

\* The contexts a caller passes: new, or already carrying an error.
CallerErrors == {<<>>, <<"prior">>}

CallExecuteStage(s, errs) ==
    /\ mode = "idle"
    /\ mode' = "direct"
    /\ LET hp == Append(heap, HookContext("s1", "prompt", {}, errs))
       IN  /\ heap' = hp
           /\ ExecuteStageEnter(s, Len(hp), hp)
    /\ UNCHANGED <<hooks, pctx, response, parsed>>
    /\ UNCHANGED offRunVars

\* ------------------------------------------------------------------------
\* AugmentationPipeline.parse_prompt_with_hooks
\* ------------------------------------------------------------------------

\* What parse_prompt (the external parser) may do: return a result, raise
\* PromptParsingError, or raise any other exception.
ParserOutcome ==
    [kind : {"ok"}, transforms : {<<>>, <<[name |-> "Blur", parameters |-> [blur_limit |-> 7], probability |-> 1]>>}, warnings : {<<>>}, error : {NoneStr}]
    \cup [kind : {"ok"}, transforms : {<<>>}, warnings : {<<"no transforms">>}, error : {NoneStr}]
    \cup [kind : {"parse_error", "exception"}, transforms : {<<>>}, warnings : {<<>>}, error : Reasons]

\* _format_success_response(context), on the content of the context
format_success_response(rec) ==
    [success |-> TRUE, session_id |-> rec.session_id, transforms |-> rec.parsed_transforms, metadata |-> rec.metadata, warnings |-> rec.warnings, errors |-> rec.errors,
     message |-> "Successfully parsed " \o ToString(Len(rec.parsed_transforms)) \o " transforms"]

\* _format_error_response(context, error), on the content of the context
format_error_response(rec, error) ==
    [success |-> FALSE, session_id |-> rec.session_id, transforms |-> rec.parsed_transforms, metadata |-> rec.metadata, warnings |-> rec.warnings, errors |-> rec.errors,
     message |-> error]

\* PreStageStops with the wrong connective: a failed stage does not stop.
PreStageStops_OnlyOnSuccess(res) == res.success /\ ~res.should_continue

\* Line 65: the test made on the Pre-MCP stage's result.
PreStageStops(res) == ~res.success \/ ~res.should_continue

\* Line 66: the context the "Pre-MCP stage failed" response is built from:
\* the local `context`, which line 67 has not yet rebound to result.context.
PreStageErrorContext(local, res) == local

\* Lines 101-106: the response after the Post-MCP stage returned res.
PostStageResponse(hp, res) == format_success_response(hp[res.context])

\* PipelineCatches with only the inner handler: an exception other than
\* PromptParsingError leaves parse_prompt_with_hooks.
PipelineCatches_OnlyParsingError(kind) == kind = "parse_error"

\* Lines 93 and 110: the exceptions of the parser call that the function
\* handles: PromptParsingError by the inner handler, every other Exception
\* by the outer one.
PipelineCatches(kind) == kind \in {"parse_error", "exception"}

\* Lines 74-91: the parser's result folded into the context record.
WithParseResult(rec, pr) ==
    [rec EXCEPT !.parsed_transforms = pr.transforms,
                !.metadata = @ \cup {"parser_confidence", "parser_warnings", "parser_suggestions"},
                !.warnings = @ \o pr.warnings]

\* NewContext keeping one context for the pipeline instance: every run
\* after the first is given the object of the first.
NewContext_Singleton(hp, session_id, prompt) ==
    IF hp = <<>>
    THEN [heap |-> <<HookContext(session_id, prompt, {"timestamp", "pipeline_version"}, <<>>)>>, id |-> 1]
    ELSE [heap |-> hp, id |-> 1]

\* Lines 51-58: context = HookContext(...): a new object on the heap, with
\* its own metadata, errors and warnings (hooks/__init__.py lines 43-49).
NewContext(hp, session_id, prompt) ==
    [heap |-> Append(hp, HookContext(session_id, prompt, {"timestamp", "pipeline_version"}, <<>>)), id |-> Len(hp) + 1]

\* Line 71: parse_prompt(context.original_prompt), made when `at` hook
\* invocations had been started: the context read and the prompt passed.
ParserCall(hp, c, at) == [ctx |-> c, prompt |-> hp[c].original_prompt, at |-> at]

\* Lines 47-64: a new context, and the Pre-MCP stage up to its first await.
StartPipeline ==
    /\ mode = "idle"
    /\ mode' = "pipeline"
    /\ LET n == NewContext(heap, "s1", "prompt")
       IN  /\ heap' = n.heap
           /\ pctx' = n.id
           /\ ExecuteStageEnter("pre_mcp", n.id, n.heap)
    /\ UNCHANGED <<hooks, response, parsed>>
    /\ UNCHANGED offRunVars

\* Lines 65-100: after the Pre-MCP stage returned: the stop test, the parser
\* call, and the Post-MCP stage up to its first await.
AfterPreStage(pr) ==
    /\ mode = "pipeline"
    /\ pc = "returned"
    /\ stage = "pre_mcp"
    /\ IF PreStageStops(result)
       THEN /\ response' = format_error_response(heap[PreStageErrorContext(pctx, result)], "Pre-MCP stage failed")
            /\ pc' = "done"
            /\ UNCHANGED <<heap, pctx, stage, idx, context, result, entry, started, finished, parsed>>
       ELSE LET c == result.context
            IN  /\ pctx' = c
                /\ parsed' = Append(parsed, ParserCall(heap, c, Len(started)))
                /\ IF pr.kind = "ok"
                   THEN LET hp == [heap EXCEPT ![c] = WithParseResult(@, pr)]
                        IN  /\ heap' = hp
                            /\ ExecuteStageEnter("post_mcp", c, hp)
                            /\ UNCHANGED response
                   ELSE IF ~PipelineCatches(pr.kind)
                   THEN /\ pc' = "raised"
                        /\ UNCHANGED <<heap, response, stage, idx, context, result, entry, started, finished>>
                   ELSE LET msg == IF pr.kind = "parse_error"
                                   THEN "Prompt parsing failed: " \o pr.error
                                   ELSE "Pipeline execution failed: " \o pr.error
                            hp == AppendError(heap, c, msg)
                        IN  /\ heap' = hp
                            /\ response' = format_error_response(hp[c], msg)
                            /\ pc' = "done"
                            /\ UNCHANGED <<stage, idx, context, result, entry, started, finished>>
    /\ UNCHANGED <<hooks, mode>>
    /\ UNCHANGED offRunVars

\* Lines 101-108: after the Post-MCP stage returned.
AfterPostStage ==
    /\ mode = "pipeline"
    /\ pc = "returned"
    /\ stage = "post_mcp"
    /\ pctx' = result.context
    /\ response' = PostStageResponse(heap, result)
    /\ pc' = "done"
    /\ UNCHANGED <<hooks, heap, mode, stage, idx, context, result, entry, started, finished, parsed>>
    /\ UNCHANGED offRunVars

\* ------------------------------------------------------------------------
\* seed_manager
\* ------------------------------------------------------------------------

\* Optional[int]: None is the empty sequence, the integer n is <<n>>.
NoSeed == <<>>

\* The seeds a caller passes: none, zero, another integer.
Seeds == {0, 7}

SeedOpt == {NoSeed} \cup {<<n>> : n \in Seeds}

\* set_global_seed leaving the seed as it is when called with None.
SetGlobalSeed_IgnoresNone(g, seed) == IF seed = NoSeed THEN g ELSE seed

\* Lines 19-20: _global_seed = seed
SetGlobalSeed(g, seed) == seed

\* get_effective_seed testing the call seed for truth: 0 counts as absent.
get_effective_seed_Truthy(transform_seed, g) ==
    IF transform_seed # NoSeed /\ transform_seed # <<0>> THEN transform_seed ELSE g

\* get_effective_seed with the global seed first.
get_effective_seed_GlobalFirst(transform_seed, g) ==
    IF g # NoSeed THEN g ELSE transform_seed

\* Lines 43-45, g being _global_seed at the time of the call.
get_effective_seed(transform_seed, g) ==
    IF transform_seed # NoSeed THEN transform_seed ELSE g

\* get_seed_metadata taking the source only from the effective seed.
get_seed_metadata_SourceOfEffective(effective_seed, transform_seed, g) ==
    [seed_used |-> effective_seed # NoSeed,
     effective_seed |-> effective_seed,
     transform_seed |-> transform_seed,
     global_seed |-> g,
     reproducible |-> effective_seed # NoSeed,
     seed_source |-> IF effective_seed # NoSeed THEN "global" ELSE "random"]

\* Lines 60-73, g being what get_global_seed() returns at line 60.
get_seed_metadata(effective_seed, transform_seed, g) ==
    [seed_used |-> effective_seed # NoSeed,
     effective_seed |-> effective_seed,
     transform_seed |-> transform_seed,
     global_seed |-> g,
     reproducible |-> effective_seed # NoSeed,
     seed_source |-> IF transform_seed # NoSeed THEN "transform"
                     ELSE IF g # NoSeed THEN "global" ELSE "random"]

\* The value of seedop before any seed-manager operation; lastset is the
\* argument of the most recent set_global_seed, None before the first.
NoSeedOp == [op |-> "none", ret |-> NoSeed, lastset |-> NoSeed]

\* ------------------------------------------------------------------------
\* processor: parameter values, transform specifications, the library
\* ------------------------------------------------------------------------

\* The number of specs in a transform list.
MaxSpecs == 2

\* A parameter value.  Numbers (int or float) are counted in halves, so that
\* 0.5 and 1.5 are values; t is "num", "str", "none" or "pair" (a 2-tuple of
\* numbers, v and w).
Num(halves) == [t |-> "num", v |-> halves, w |-> 0]

FromInt(n) == Num(n * 2)

StrValue == [t |-> "str", v |-> 0, w |-> 0]

NoneValue == [t |-> "none", v |-> 0, w |-> 0]

Pair(a, b) == [t |-> "pair", v |-> a, w |-> b]

\* isinstance(x, (int, float))
IsNumber(x) == x.t = "num"

\* int(x): truncation towards zero
IntOf(halves) == IF halves >= 0 THEN 2 * (halves \div 2) ELSE -(2 * ((-halves) \div 2))

Min(a, b) == IF b < a THEN b ELSE a

Max(a, b) == IF b > a THEN b ELSE a

\* dict.get(key) with the default None, dict.get(key, default)
Get(d, k) == IF k \in DOMAIN d THEN <<d[k]>> ELSE <<>>

GetOr(d, k, default) == IF k \in DOMAIN d THEN d[k] ELSE default

EmptyDict == [k \in {} |-> NoneValue]

\* CleanBlurLimit without lines 307-308: an even size stays even.
CleanBlurLimit_KeepsEven(x) ==
    IF ~IsNumber(x) THEN x
    ELSE FromInt(Max(3, Min(IntOf(x.v) \div 2, 99)))

\* CleanBlurLimit adding one to every size, odd or even, and clamping from
\* below only.
CleanBlurLimit_AlwaysBumps(x) ==
    IF ~IsNumber(x) THEN x
    ELSE FromInt(Max(3, (IntOf(x.v) \div 2) + 1))

\* Lines 301-309: blur_limit made an odd integer within [3, 99]
CleanBlurLimit(x) ==
    IF ~IsNumber(x) THEN x
    ELSE LET b == IntOf(x.v) \div 2
             odd == IF b % 2 = 0 THEN b + 1 ELSE b
         IN  FromInt(Max(3, Min(odd, 99)))

\* CleanRotateLimit without the lower end: min(float(limit), 180).
CleanRotateLimit_UpperOnly(x) ==
    IF ~IsNumber(x) THEN x ELSE Num(Min(x.v, 360))

\* Line 316: max(-180, min(float(limit), 180))
CleanRotateLimit(x) ==
    IF ~IsNumber(x) THEN x ELSE Num(Max(-360, Min(x.v, 360)))

\* Lines 320-334, 360-363: max(0.0, min(float(v), 1.0))
CleanUnit(x) ==
    IF ~IsNumber(x) THEN x ELSE Num(Max(0, Min(x.v, 2)))

\* Lines 340-349: (max(0.0, float(min_var)), min(255.0, float(max_var)))
CleanVarLimit(x) ==
    IF x.t # "pair" THEN x ELSE Pair(Max(0, x.v), Min(510, x.w))

\* Lines 356-357: max(1, int(value))
CleanCropDim(x) ==
    IF ~IsNumber(x) THEN x ELSE Num(Max(2, IntOf(x.v)))

\* CleanValue with the p rule as one more branch of the elif chain: p is
\* clamped only for a transform without a rule family of its own.
CleanValue_PForPlainOnly(name, k, x) ==
    IF name \in {"Blur", "GaussianBlur", "MotionBlur"} THEN (IF k = "blur_limit" THEN CleanBlurLimit(x) ELSE x)
    ELSE IF name = "Rotate" THEN (IF k = "limit" THEN CleanRotateLimit(x) ELSE x)
    ELSE IF name = "RandomBrightnessContrast" THEN (IF k \in {"brightness_limit", "contrast_limit"} THEN CleanUnit(x) ELSE x)
    ELSE IF name = "GaussNoise" THEN (IF k = "var_limit" THEN CleanVarLimit(x) ELSE x)
    ELSE IF name \in {"RandomCrop", "RandomResizedCrop"} THEN (IF k \in {"height", "width"} THEN CleanCropDim(x) ELSE x)
    ELSE IF k = "p" THEN CleanUnit(x)
    ELSE x

\* The rule _validate_parameters applies to parameter k of transform name.
CleanValue(name, k, x) ==
    IF name \in {"Blur", "GaussianBlur", "MotionBlur"} /\ k = "blur_limit" THEN CleanBlurLimit(x)
    ELSE IF name = "Rotate" /\ k = "limit" THEN CleanRotateLimit(x)
    ELSE IF name = "RandomBrightnessContrast" /\ k \in {"brightness_limit", "contrast_limit"} THEN CleanUnit(x)
    ELSE IF name = "GaussNoise" /\ k = "var_limit" THEN CleanVarLimit(x)
    ELSE IF name \in {"RandomCrop", "RandomResizedCrop"} /\ k \in {"height", "width"} THEN CleanCropDim(x)
    ELSE IF k = "p" THEN CleanUnit(x)
    ELSE x

\* Lines 298-365: ImageProcessor._validate_parameters
validate_parameters(name, parameters) ==
    LET kept == {k \in DOMAIN parameters : parameters[k].t # "none"}
    IN  [k \in kept |-> CleanValue(name, k, parameters[k])]

\* hasattr(A, name): the transform classes of the library.
KnownTransforms == {"Blur", "GaussianBlur", "MotionBlur", "Rotate", "RandomBrightnessContrast", "GaussNoise", "RandomCrop", "RandomResizedCrop"}

\* The keyword arguments a transform class of the library takes, and those
\* it requires.
ParamsOf(name) ==
    IF name \in {"Blur", "GaussianBlur", "MotionBlur"} THEN {"blur_limit", "p"}
    ELSE IF name = "Rotate" THEN {"limit", "p"}
    ELSE IF name = "RandomBrightnessContrast" THEN {"brightness_limit", "contrast_limit", "p"}
    ELSE IF name = "GaussNoise" THEN {"var_limit", "p"}
    ELSE {"height", "width", "p"}

RequiredOf(name) ==
    IF name \in {"RandomCrop", "RandomResizedCrop"} THEN {"height", "width"} ELSE {}

\* Line 272: whether transform_class(**clean_params) raises: a keyword the
\* class does not take, a required one missing, a value that is no number.
ConstructorRaises(name, clean) ==
    \/ ~(DOMAIN clean \subseteq ParamsOf(name))
    \/ ~(RequiredOf(name) \subseteq DOMAIN clean)
    \/ \E k \in DOMAIN clean : clean[k].t = "str"

\* create_transform that lets a spec without a usable name through as a
\* transform of its own.
create_transform_NeverSkips(transform_spec) ==
    <<[name |-> "Any", params |-> EmptyDict]>>

\* Lines 251-269: the clean_params _create_transform hands to the
\* constructor, in a one-element sequence, or the empty sequence when it
\* returns None before it calls the constructor.
ConstructorArgs(transform_spec) ==
    LET transform_name == Get(transform_spec, "name")
        parameters == GetOr(transform_spec, "parameters", EmptyDict)
    IN  IF transform_name = <<>> \/ transform_name = <<"">> THEN <<>>
        ELSE IF transform_name[1] \notin KnownTransforms THEN <<>>
        ELSE <<validate_parameters(transform_name[1], parameters)>>

\* Lines 251-281: ImageProcessor._create_transform: the transform object in
\* a one-element sequence, or the empty sequence for None.
create_transform(transform_spec) ==
    LET args == ConstructorArgs(transform_spec)
    IN  IF args = <<>> THEN <<>>
        ELSE IF ConstructorRaises(transform_spec.name, args[1]) THEN <<>>
        ELSE <<[name |-> transform_spec.name, params |-> args[1]]>>

\* The elements of seq at the positions where keep holds, in order.
RECURSIVE SelectAt(_, _, _)
SelectAt(seq, keep, i) ==
    IF i > Len(seq) THEN <<>>
    ELSE (IF keep[i] THEN <<seq[i]>> ELSE <<>>) \o SelectAt(seq, keep, i + 1)

\* The concatenation of the sequences seqs[i], seqs[i+1], ...
RECURSIVE Concat(_, _)
Concat(seqs, i) ==
    IF i > Len(seqs) THEN <<>> ELSE seqs[i] \o Concat(seqs, i + 1)

\* Lines 201-217: the loop of _create_pipeline
CompileLoop(transforms) ==
    LET made == [i \in DOMAIN transforms |-> create_transform(transforms[i])]
        ok == [i \in DOMAIN transforms |-> made[i] # <<>>]
    IN  [valid |-> Concat(made, 1),
         applied |-> SelectAt(transforms, ok, 1),
         skipped |-> SelectAt(transforms, [i \in DOMAIN transforms |-> ~ok[i]], 1)]

\* create_pipeline that reports nothing as skipped when no transform is
\* valid.
create_pipeline_DropsInvalid(transforms, seed, composeOk) ==
    LET loop == CompileLoop(transforms)
    IN  IF loop.valid = <<>>
        THEN [pipeline |-> <<>>, applied |-> <<>>, skipped |-> <<>>]
        ELSE IF composeOk
        THEN [pipeline |-> <<[transforms |-> loop.valid, seed |-> seed]>>, applied |-> loop.applied, skipped |-> loop.skipped]
        ELSE [pipeline |-> <<>>, applied |-> <<>>, skipped |-> transforms]

\* Lines 219-237: ImageProcessor._create_pipeline; composeOk is whether
\* A.Compose returns.  pipeline is <<>> for None.
create_pipeline(transforms, seed, composeOk) ==
    LET loop == CompileLoop(transforms)
    IN  IF loop.valid = <<>>
        THEN [pipeline |-> <<>>, applied |-> loop.applied, skipped |-> loop.skipped]
        ELSE IF composeOk
        THEN [pipeline |-> <<[transforms |-> loop.valid, seed |-> seed]>>, applied |-> loop.applied, skipped |-> loop.skipped]
        ELSE [pipeline |-> <<>>, applied |-> <<>>, skipped |-> transforms]

\* The transform lists given to process_image.
SpecPool ==
    {[parameters |-> EmptyDict],
     [name |-> "", parameters |-> EmptyDict],
     [name |-> "Bogus"],
     [name |-> "RandomCrop", parameters |-> [p |-> Num(2)]],
     [name |-> "Rotate", parameters |-> [limit |-> FromInt(999)]],
     [name |-> "Blur", parameters |-> [blur_limit |-> FromInt(4), p |-> Num(3)]]}

RECURSIVE ListsUpTo(_, _)
ListsUpTo(S, n) ==
    IF n = 0 THEN {<<>>}
    ELSE LET shorter == ListsUpTo(S, n - 1)
         IN  shorter \cup {Append(l, x) : l \in shorter, x \in S}

TransformLists == ListsUpTo(SpecPool, MaxSpecs)

\* ------------------------------------------------------------------------
\* processor: process_image, with set_global_seed of other threads between
\* its statements
\* ------------------------------------------------------------------------

\* A PIL image: its size and its pixels (<<>> for the pixels of an input
\* image, else what produced them).
Images == {[w |-> 4, h |-> 4, pixels |-> <<>>], [w |-> 0, h |-> 4, pixels |-> <<>>]}

\* validate_image: the message of the ImageValidationError it raises, in a
\* one-element sequence, or <<>> when it returns.
validate_image(image) ==
    IF image.w <= 0 \/ image.h <= 0 THEN <<"Invalid image dimensions">> ELSE <<>>

\* Lines 127-128: what the composed pipeline returns for an image.  With a
\* seed the output is a function of image, transforms and seed; without one
\* the library draws.
PipelineOutput(image, pipeline, draw) ==
    [w |-> image.w, h |-> image.h,
     pixels |-> <<[by |-> pipeline.transforms, seed |-> pipeline.seed, draw |-> IF pipeline.seed = NoSeed THEN draw ELSE 0]>>]

\* What the library does when the pipeline is called.
ExecOutcome == [ok : BOOLEAN, draw : {0, 1}, error : Reasons]

\* {**a, **b}
Merge(a, b) == [k \in DOMAIN a \cup DOMAIN b |-> IF k \in DOMAIN b THEN b[k] ELSE a[k]]

NoSeedMetadata == get_seed_metadata(NoSeed, NoSeed, NoSeed)

NoProcessingResult ==
    [success |-> FALSE, augmented_image |-> <<>>, applied_transforms |-> <<>>, skipped_transforms |-> <<>>, metadata |-> EmptyDict, error_message |-> NoneStr]

\* Lines 109-123: the result when there is no pipeline
NoPipelineResult(image, applied, skipped, seed_metadata) ==
    [success |-> TRUE,
     augmented_image |-> <<image>>,
     applied_transforms |-> applied,
     skipped_transforms |-> skipped,
     metadata |-> Merge([original_size |-> <<image.w, image.h>>, output_size |-> <<image.w, image.h>>, processing_time |-> "elapsed",
                         transforms_applied |-> 0, transforms_skipped |-> Len(skipped)], seed_metadata),
     error_message |-> NoneStr]

\* Lines 127-146: the result when the pipeline ran
ExecutedResult(augmented_image, transforms, applied, skipped, seed_metadata, image) ==
    [success |-> TRUE,
     augmented_image |-> <<augmented_image>>,
     applied_transforms |-> applied,
     skipped_transforms |-> skipped,
     metadata |-> Merge([original_size |-> <<image.w, image.h>>, output_size |-> <<augmented_image.w, augmented_image.h>>, processing_time |-> "elapsed",
                         transforms_applied |-> Len(applied), transforms_skipped |-> Len(skipped), pipeline_hash |-> transforms], seed_metadata),
     error_message |-> NoneStr]

\* Lines 148-165: the result when calling the pipeline raised
ExecutionFailedResult(image, transforms, seed_metadata, e) ==
    [success |-> FALSE,
     augmented_image |-> <<image>>,
     applied_transforms |-> <<>>,
     skipped_transforms |-> transforms,
     metadata |-> Merge([original_size |-> <<image.w, image.h>>, output_size |-> <<image.w, image.h>>, processing_time |-> "elapsed",
                         error |-> e], seed_metadata),
     error_message |-> "Pipeline execution failed: " \o e]

\* Lines 167-185: the result of the outer handler
ProcessingFailedResult(transforms, seed, e) ==
    [success |-> FALSE,
     augmented_image |-> <<>>,
     applied_transforms |-> <<>>,
     skipped_transforms |-> transforms,
     metadata |-> [processing_time |-> "elapsed", error |-> e, seed_used |-> seed # NoSeed, effective_seed |-> seed],
     error_message |-> "Processing failed: " \o e]

\* The frame of process_image before any call.  g_at_submit and
\* g_at_resolve record the global seed when the call was made and when line
\* 96 ran; composed is the pipeline A.Compose returned, if it was called and
\* returned.
ProcIdle ==
    [pc |-> "idle", image |-> [w |-> 0, h |-> 0, pixels |-> <<>>], transforms |-> <<>>, seed |-> NoSeed,
     effective_seed |-> NoSeed, seed_metadata |-> NoSeedMetadata,
     pipeline |-> <<>>, applied |-> <<>>, skipped |-> <<>>, composed |-> <<>>,
     result |-> NoProcessingResult, g_at_submit |-> NoSeed, g_at_resolve |-> NoSeed]

\* seed_manager.set_global_seed(seed), by any thread at any time
set_global_seed(seed) ==
    /\ global_seed' = SetGlobalSeed(global_seed, seed)
    /\ seedop' = [op |-> "set", ret |-> NoSeed, lastset |-> seed]
    /\ UNCHANGED <<hooks, regop, proc, runs, call, last>>
    /\ UNCHANGED runVars

\* seed_manager.get_global_seed()
get_global_seed ==
    /\ seedop' = [seedop EXCEPT !.op = "get", !.ret = global_seed]
    /\ UNCHANGED <<hooks, regop, global_seed, proc, runs, call, last>>
    /\ UNCHANGED runVars

\* What no statement of process_image touches.
offProcVars == <<hooks, regop, global_seed, seedop, runs, call, last>>

\* Lines 148 and 167: the exceptions process_image handles: those of the
\* pipeline call by the inner handler, those of validate_image and
\* pil_to_numpy by the outer one.
ProcCatches(kind) == kind \in {"validation", "execution"}

\* The call process_image(image, transforms, seed)
ProcSubmit(image, transforms, seed) ==
    /\ proc.pc = "idle"
    /\ proc' = [ProcIdle EXCEPT !.pc = "validate", !.image = image, !.transforms = transforms, !.seed = seed,
                                !.g_at_submit = global_seed]
    /\ UNCHANGED offProcVars
    /\ UNCHANGED runVars

\* The caller has taken the result; the next call may be made.
ProcReturn ==
    /\ proc.pc = "done"
    /\ proc' = ProcIdle
    /\ UNCHANGED offProcVars
    /\ UNCHANGED runVars

\* Lines 85-91 and, when validate_image raises, lines 167-185
ProcValidate ==
    /\ proc.pc = "validate"
    /\ LET e == validate_image(proc.image)
       IN  IF e # <<>> /\ ~ProcCatches("validation")
           THEN proc' = [proc EXCEPT !.pc = "raised"]
           ELSE IF e # <<>>
           THEN proc' = [proc EXCEPT !.pc = "done", !.result = ProcessingFailedResult(proc.transforms, proc.seed, e[1])]
           ELSE proc' = [proc EXCEPT !.pc = "resolve"]
    /\ UNCHANGED offProcVars
    /\ UNCHANGED runVars

\* Line 96: effective_seed = get_effective_seed(seed)
ProcResolve ==
    /\ proc.pc = "resolve"
    /\ proc' = [proc EXCEPT !.pc = "metadata", !.effective_seed = get_effective_seed(proc.seed, global_seed),
                            !.g_at_resolve = global_seed]
    /\ UNCHANGED offProcVars
    /\ UNCHANGED runVars

\* Line 97: seed_metadata = get_seed_metadata(effective_seed, seed)
ProcMetadata ==
    /\ proc.pc = "metadata"
    /\ proc' = [proc EXCEPT !.pc = "compile", !.seed_metadata = get_seed_metadata(proc.effective_seed, proc.seed, global_seed)]
    /\ UNCHANGED offProcVars
    /\ UNCHANGED runVars

\* Lines 100-123: _create_pipeline, and the return when there is no pipeline
ProcCompile(composeOk) ==
    /\ proc.pc = "compile"
    /\ LET made == create_pipeline(proc.transforms, proc.effective_seed, composeOk)
       IN  IF made.pipeline = <<>>
           THEN proc' = [proc EXCEPT !.pc = "done", !.applied = made.applied, !.skipped = made.skipped,
                                     !.result = NoPipelineResult(proc.image, made.applied, made.skipped, proc.seed_metadata)]
           ELSE proc' = [proc EXCEPT !.pc = "execute", !.applied = made.applied, !.skipped = made.skipped,
                                     !.pipeline = made.pipeline, !.composed = made.pipeline]
    /\ UNCHANGED offProcVars
    /\ UNCHANGED runVars

\* Lines 126-165: the pipeline is called
ProcExecute(x) ==
    /\ proc.pc = "execute"
    /\ proc' = IF ~x.ok /\ ~ProcCatches("execution") THEN [proc EXCEPT !.pc = "raised"]
               ELSE
               [proc EXCEPT !.pc = "done",
                            !.result = IF x.ok
                                       THEN ExecutedResult(PipelineOutput(proc.image, proc.pipeline[1], x.draw), proc.transforms,
                                                           proc.applied, proc.skipped, proc.seed_metadata, proc.image)
                                       ELSE ExecutionFailedResult(proc.image, proc.transforms, proc.seed_metadata, x.error)]
    /\ UNCHANGED offProcVars
    /\ UNCHANGED runVars


\* ------------------------------------------------------------------------
\* Two concurrent runs of parse_prompt_with_hooks on one event loop
\* ------------------------------------------------------------------------

\* The number of hooks registered before two concurrent runs start.
MaxConcHooks == 1

Runs == {1, 2}

OtherRun(r) == 3 - r

\* The session id and the prompt of each run; what the hooks and the parser
\* report for a run is marked with the run's session id.
SessionOf(r) == IF r = 1 THEN "s1" ELSE "s2"

PromptOf(r) == "prompt of " \o SessionOf(r)

ReasonOf(r) == "boom in " \o SessionOf(r)

\* The hook behaviours of a run: a fault, a declared failure, a success
\* with a new context object, a success asking to stop.
RunHookOutcome(r) ==
    {[kind |-> "raise", success |-> FALSE, error |-> ReasonOf(r), should_continue |-> TRUE, ctx |-> "none"],
     [kind |-> "return", success |-> FALSE, error |-> ReasonOf(r), should_continue |-> TRUE, ctx |-> "none"],
     [kind |-> "return", success |-> TRUE, error |-> NoneStr, should_continue |-> TRUE, ctx |-> "copy"],
     [kind |-> "return", success |-> TRUE, error |-> NoneStr, should_continue |-> FALSE, ctx |-> "same"]}

\* The parser behaviours of a run.
RunParserOutcome(r) ==
    {[kind |-> "ok", transforms |-> <<[name |-> "Blur", parameters |-> [blur_limit |-> 7], probability |-> 1]>>,
      warnings |-> <<"warning for " \o SessionOf(r)>>, error |-> NoneStr],
     [kind |-> "parse_error", transforms |-> <<>>, warnings |-> <<>>, error |-> ReasonOf(r)]}

NoResponse == [success |-> FALSE, session_id |-> "", transforms |-> <<>>, metadata |-> {}, warnings |-> <<>>, errors |-> <<>>, message |-> ""]

\* The frame of a run that has not started.
RunNew == [pc |-> "new", stage |-> "pre_mcp", idx |-> 0, context |-> NoneCtx, result |-> NoResult, pctx |-> NoneCtx, response |-> NoResponse]

RunsIdle == [r \in Runs |-> RunNew]

\* What no step of the two runs touches.
offRunsVars == <<regop, global_seed, seedop, proc, call, last>>

\* The default hooks are registered before any run starts
\* (pipeline.py lines 29-39).
RegisterAtStartup(s, hook) ==
    /\ \A r \in Runs : runs[r].pc = "new"
    /\ TotalHooks < MaxConcHooks
    /\ hooks' = RegisterHook(hooks, s, hook)
    /\ UNCHANGED runs
    /\ UNCHANGED runVars
    /\ UNCHANGED offRunsVars

\* execute_stage(s, c) of a run up to its first await or its return
\* (hooks/__init__.py lines 117-128): the frame after it.
RunEnterStage(f, s, c) ==
    LET e == StageEntry(hooks[s], c)
    IN  IF e.returns
        THEN [f EXCEPT !.stage = s, !.context = c, !.result = e.result, !.pc = "returned", !.idx = 0]
        ELSE [f EXCEPT !.stage = s, !.context = c, !.result = NoResult, !.pc = "await", !.idx = 1]

\* pipeline.py lines 47-64 in run r
RunStart(r) ==
    /\ runs[r].pc = "new"
    /\ LET n == NewContext(heap, SessionOf(r), PromptOf(r))
       IN  /\ heap' = n.heap
           /\ runs' = [runs EXCEPT ![r] = RunEnterStage([@ EXCEPT !.pctx = n.id], "pre_mcp", n.id)]
    /\ UNCHANGED <<hooks, mode, pc, stage, idx, context, result, pctx, response, entry, started, finished, parsed>>
    /\ UNCHANGED offRunsVars

\* The hook run r awaits completes (hooks/__init__.py lines 125-172)
RunHookCompletes(r, out) ==
    /\ runs[r].pc = "await"
    /\ LET f == runs[r]
           hook == hooks[f.stage][f.idx]
           x == HookExecute(hook, out, f.context, heap)
           b == LoopBody(hook, x, f.context)
       IN  /\ heap' = b.heap
           /\ runs' = [runs EXCEPT ![r] =
                          IF b.returns
                          THEN [f EXCEPT !.context = b.context, !.result = b.result, !.pc = "returned"]
                          ELSE IF HasNext(hooks[f.stage], f.idx)
                          THEN [f EXCEPT !.context = b.context, !.idx = f.idx + 1]
                          ELSE [f EXCEPT !.context = b.context, !.result = StageCompleted(b.context), !.pc = "returned"]]
    /\ UNCHANGED <<hooks, mode, pc, stage, idx, context, result, pctx, response, entry, started, finished, parsed>>
    /\ UNCHANGED offRunsVars

\* pipeline.py lines 65-100 in run r
RunAfterPreStage(r, pr) ==
    /\ runs[r].pc = "returned"
    /\ runs[r].stage = "pre_mcp"
    /\ LET f == runs[r]
           c == f.result.context
       IN  IF PreStageStops(f.result)
           THEN /\ runs' = [runs EXCEPT ![r] = [f EXCEPT !.pc = "done",
                                !.response = format_error_response(heap[PreStageErrorContext(f.pctx, f.result)], "Pre-MCP stage failed")]]
                /\ UNCHANGED heap
           ELSE IF pr.kind = "ok"
           THEN /\ heap' = [heap EXCEPT ![c] = WithParseResult(@, pr)]
                /\ runs' = [runs EXCEPT ![r] = RunEnterStage([f EXCEPT !.pctx = c], "post_mcp", c)]
           ELSE IF ~PipelineCatches(pr.kind)
           THEN /\ runs' = [runs EXCEPT ![r] = [f EXCEPT !.pctx = c, !.pc = "raised"]]
                /\ UNCHANGED heap
           ELSE LET msg == IF pr.kind = "parse_error"
                           THEN "Prompt parsing failed: " \o pr.error
                           ELSE "Pipeline execution failed: " \o pr.error
                    hp == AppendError(heap, c, msg)
                IN  /\ heap' = hp
                    /\ runs' = [runs EXCEPT ![r] = [f EXCEPT !.pctx = c, !.pc = "done", !.response = format_error_response(hp[c], msg)]]
    /\ UNCHANGED <<hooks, mode, pc, stage, idx, context, result, pctx, response, entry, started, finished, parsed>>
    /\ UNCHANGED offRunsVars

\* pipeline.py lines 101-108 in run r
RunAfterPostStage(r) ==
    /\ runs[r].pc = "returned"
    /\ runs[r].stage = "post_mcp"
    /\ runs' = [runs EXCEPT ![r] = [@ EXCEPT !.pctx = runs[r].result.context, !.pc = "done",
                                               !.response = PostStageResponse(heap, runs[r].result)]]
    /\ UNCHANGED <<hooks, heap, mode, pc, stage, idx, context, result, pctx, response, entry, started, finished, parsed>>
    /\ UNCHANGED offRunsVars

\* ------------------------------------------------------------------------
\* HookRegistry.unregister_hook, HookRegistry.list_hooks
\* ------------------------------------------------------------------------

\* Lines 100-101: the position of the first hook named n in hs, 0 if none.
FirstNamed(hs, n) ==
    IF \E i \in DOMAIN hs : hs[i].name = n
    THEN CHOOSE i \in DOMAIN hs : hs[i].name = n /\ \A j \in 1 .. (i - 1) : hs[j].name # n
    ELSE 0

\* Line 102: del hooks[i]
DeleteAt(hs, i) == SubSeq(hs, 1, i - 1) \o SubSeq(hs, i + 1, Len(hs))

\* UnregisterHook removing every hook with the name, not the first only.
UnregisterHook_RemovesAll(hs, n) ==
    IF FirstNamed(hs, n) = 0
    THEN [hooks |-> hs, ret |-> FALSE]
    ELSE [hooks |-> SelectSeq(hs, LAMBDA h : h.name # n), ret |-> TRUE]

\* Lines 99-107: the stage's list after unregister_hook, and its return value.
UnregisterHook(hs, n) ==
    IF FirstNamed(hs, n) = 0
    THEN [hooks |-> hs, ret |-> FALSE]
    ELSE [hooks |-> DeleteAt(hs, FirstNamed(hs, n)), ret |-> TRUE]

\* Lines 176-179: the dict list_hooks returns.
ListHooks(hs) ==
    [s \in HookStage |-> [i \in DOMAIN hs[s] |-> hs[s][i].name]]

\* The value of regop before any registry operation.
NoRegOp == [op |-> "none", stage |-> "pre_mcp", name |-> "", ret |-> FALSE, listing |-> [s \in HookStage |-> <<>>]]

\* register_hook as an operation on the registry alone, its call recorded.
Register(s, hook) ==
    /\ TotalHooks < MaxHooks
    /\ hooks' = RegisterHook(hooks, s, hook)
    /\ regop' = [NoRegOp EXCEPT !.op = "register", !.stage = s, !.name = hook.name]
    /\ UNCHANGED runVars
    /\ UNCHANGED <<global_seed, seedop, proc, runs, call, last>>

unregister_hook(s, n) ==
    /\ LET r == UnregisterHook(hooks[s], n)
       IN  /\ hooks' = [hooks EXCEPT ![s] = r.hooks]
           /\ regop' = [NoRegOp EXCEPT !.op = "unregister", !.stage = s, !.name = n, !.ret = r.ret]
    /\ UNCHANGED runVars
    /\ UNCHANGED <<global_seed, seedop, proc, runs, call, last>>

list_hooks ==
    /\ regop' = [NoRegOp EXCEPT !.op = "list", !.listing = ListHooks(hooks)]
    /\ UNCHANGED hooks
    /\ UNCHANGED runVars
    /\ UNCHANGED <<global_seed, seedop, proc, runs, call, last>>

\* ------------------------------------------------------------------------
\* The compiler's methods called on their own
\* ------------------------------------------------------------------------

\* The largest magnitude of a numeric parameter value, in halves.
MaxHalves == 364

Numbers == {Num(h) : h \in (-MaxHalves) .. MaxHalves}

\* The ends of a var_limit pair, in halves.
VarEnds == {-2, 0, 100, 510, 512}

ParamValues == Numbers \cup {StrValue, NoneValue} \cup {Pair(a, b) : a \in VarEnds, b \in VarEnds}

\* The parameter names of the rules, and one no transform takes.
ParamKeys == {"blur_limit", "limit", "brightness_limit", "contrast_limit", "var_limit", "height", "width", "p", "extra"}

\* The values of p given next to another parameter: 1.5 and None.
SideP == {Num(3), NoneValue}

\* The parameter mappings handed in: one parameter, or one parameter and p.
ParamSets ==
    {k :> v : k \in ParamKeys, v \in ParamValues}
    \cup {(k :> v) @@ ("p" :> q) : k \in ParamKeys \ {"p"}, v \in ParamValues, q \in SideP}

CleanNames == KnownTransforms \cup {"Bogus"}

\* The lists of the form [Rotate with limit v, Bogus without parameters].
RotateLists ==
    {<<[name |-> "Rotate", parameters |-> ("limit" :> v)], [name |-> "Bogus"]>> : v \in Numbers \cup {FromInt(999)}}

\* after is the content, when the method has returned, of the spec objects
\* the caller passed.
NoCall ==
    [op |-> "none", name |-> "", parameters |-> EmptyDict, cleaned |-> EmptyDict, recleaned |-> EmptyDict, args |-> <<>>,
     transforms |-> <<>>, made |-> [pipeline |-> <<>>, applied |-> <<>>, skipped |-> <<>>], after |-> <<>>]

\* InputAfterClean with clean_params bound to the caller's mapping itself:
\* the rules write into the input.
InputAfterClean_InPlace(name, parameters) == validate_parameters(name, parameters)

\* Line 298: clean_params is a new dict built by a comprehension, and every
\* later write goes to it: the content of the caller's mapping after
\* _validate_parameters(name, parameters) is what it was.
InputAfterClean(name, parameters) == parameters

\* Lines 251-269: the content of the caller's spec after
\* _create_transform(spec): only the parameters mapping is handed on, and
\* only when the name is that of a transform class.
SpecAfterCreate(spec) ==
    IF ConstructorArgs(spec) = <<>> \/ "parameters" \notin DOMAIN spec THEN spec
    ELSE [spec EXCEPT !.parameters = InputAfterClean(spec.name, spec.parameters)]

\* The frame of the remembered process_image call, before any call returned.
NoLast == ProcIdle

\* What the compiler's methods leave alone.
offCallVars == <<hooks, regop, global_seed, seedop, proc, runs, last>>

\* _validate_parameters(name, parameters), then once more on what it
\* returned, and the arguments _create_transform makes for the constructor
\* from the spec {"name": name, "parameters": parameters}.
CleanCall(name, parameters) ==
    /\ call.op = "none"
    /\ call' = [NoCall EXCEPT !.op = "clean", !.name = name, !.parameters = parameters,
                              !.cleaned = validate_parameters(name, parameters),
                              !.recleaned = validate_parameters(name, validate_parameters(name, parameters)),
                              !.args = ConstructorArgs([name |-> name, parameters |-> parameters]),
                              !.after = <<[name |-> name, parameters |-> InputAfterClean(name, parameters)]>>]
    /\ UNCHANGED offCallVars
    /\ UNCHANGED runVars

\* _create_pipeline(transforms) with A.Compose returning
CompileCall(transforms) ==
    /\ call.op = "none"
    /\ call' = [NoCall EXCEPT !.op = "compile", !.transforms = transforms, !.made = create_pipeline(transforms, NoSeed, TRUE),
                              !.after = [i \in DOMAIN transforms |-> SpecAfterCreate(transforms[i])]]
    /\ UNCHANGED offCallVars
    /\ UNCHANGED runVars

\* The specs the orchestrator hands on (pipeline.py lines 75-79): a name, a
\* parameters mapping and a probability, which is None or a number.
OrchestratorSpecs ==
    {[name |-> n, parameters |-> ps, probability |-> q] :
        n \in {"Blur", "Rotate"}, ps \in {EmptyDict, "p" :> Num(2), "p" :> Num(1)}, q \in {NoneValue, Num(0), Num(1), Num(2)}}

\* _create_transform(spec) on a spec of the orchestrator: the arguments it
\* makes for the constructor.
CreateCall(spec) ==
    /\ call.op = "none"
    /\ call' = [NoCall EXCEPT !.op = "create", !.transforms = <<spec>>, !.args = ConstructorArgs(spec),
                              !.after = <<SpecAfterCreate(spec)>>]
    /\ UNCHANGED offCallVars
    /\ UNCHANGED runVars

\* The caller has taken what the method returned.
CallReturn ==
    /\ call.op # "none"
    /\ call' = NoCall
    /\ UNCHANGED offCallVars
    /\ UNCHANGED runVars

Init ==
    /\ hooks = [s \in HookStage |-> <<>>]
    /\ heap = <<>>
    /\ mode = "idle"
    /\ pc = "idle"
    /\ stage = "pre_mcp"
    /\ idx = 0
    /\ context = NoneCtx
    /\ result = NoResult
    /\ pctx = NoneCtx
    /\ response = [success |-> FALSE, session_id |-> "", transforms |-> <<>>, metadata |-> {}, warnings |-> <<>>, errors |-> <<>>, message |-> ""]
    /\ entry = [ctx |-> NoneCtx, val |-> HookContext("", "", {}, <<>>), from |-> 0]
    /\ started = <<>>
    /\ finished = <<>>
    /\ parsed = <<>>
    /\ regop = NoRegOp
    /\ global_seed = NoSeed
    /\ seedop = NoSeedOp
    /\ proc = ProcIdle
    /\ runs = RunsIdle
    /\ call = NoCall
    /\ last = NoLast

Next ==
    \/ \E s \in RegStages, hook \in BaseHook : register_hook(s, hook)
    \/ \E s \in HookStage, errs \in CallerErrors : CallExecuteStage(s, errs)
    \/ \E out \in HookOutcome : HookCompletes(out)
    \/ StartPipeline
    \/ \E pr \in ParserOutcome : AfterPreStage(pr)
    \/ AfterPostStage

Spec == Init /\ [][Next]_vars

\* The single run when every awaited hook completes and the event loop
\* resumes the coroutine after each stage.
SpecLive ==
    /\ Init
    /\ [][Next]_vars
    /\ WF_vars(\E out \in HookOutcome : HookCompletes(out))
    /\ WF_vars(\E pr \in ParserOutcome : AfterPreStage(pr))
    /\ WF_vars(AfterPostStage)

\* The registry operations in any order.
NextRegistry ==
    \/ \E s \in RegStages, hook \in BaseHook : Register(s, hook)
    \/ \E s \in HookStage, n \in HookNames : unregister_hook(s, n)
    \/ list_hooks

SpecRegistry == Init /\ [][NextRegistry]_vars

\* process_image calls one after the other, and the seed manager's
\* operations at any point between their statements.
NextProc ==
    \/ \E seed \in SeedOpt : set_global_seed(seed)
    \/ get_global_seed
    \/ \E image \in Images, transforms \in TransformLists, seed \in SeedOpt : ProcSubmit(image, transforms, seed)
    \/ ProcValidate
    \/ ProcResolve
    \/ ProcMetadata
    \/ \E composeOk \in BOOLEAN : ProcCompile(composeOk)
    \/ \E x \in ExecOutcome : ProcExecute(x)
    \/ ProcReturn

SpecProc == Init /\ [][NextProc]_vars

\* One execute_stage call, with one register_hook or unregister_hook on the
\* call's stage made while a hook of the call is awaited (by another task
\* or by the hook itself); the registry is filled before the call.
NextLiveRegistry ==
    \/ \E s \in RegStages, hook \in BaseHook : register_hook(s, hook)
    \/ \E s \in RegStages, errs \in CallerErrors : CallExecuteStage(s, errs)
    \/ \E out \in HookOutcome : HookCompletes(out)
    \/ (pc = "await" /\ regop.op = "none") /\ \E hook \in BaseHook : Register(stage, hook)
    \/ (pc = "await" /\ regop.op = "none") /\ \E n \in HookNames : unregister_hook(stage, n)

SpecLiveRegistry == Init /\ [][NextLiveRegistry]_vars

\* The compiler's methods on every name and parameter mapping.
NextCompiler ==
    \/ call.op = "none" /\ \E name \in CleanNames, parameters \in ParamSets : CleanCall(name, parameters)
    \/ call.op = "none" /\ \E transforms \in RotateLists : CompileCall(transforms)
    \/ call.op = "none" /\ \E spec \in OrchestratorSpecs : CreateCall(spec)
    \/ CallReturn

SpecCompiler == Init /\ [][NextCompiler]_vars

\* The images and the one-transform lists of the repeated calls.
RepeatImages == {[w |-> 4, h |-> 4, pixels |-> <<>>], [w |-> 2, h |-> 4, pixels |-> <<>>]}

RepeatLists == {<<spec>> : spec \in {x \in SpecPool : "name" \in DOMAIN x /\ x.name # ""}}

\* What the caller keeps of a finished call of frame f: its arguments, the
\* global seed line 96 read, the pipeline A.Compose returned, and the
\* success flag, the image and the two lists of its result.
Remembered(f) ==
    [ProcIdle EXCEPT !.pc = "done", !.image = f.image, !.transforms = f.transforms, !.seed = f.seed,
                     !.g_at_resolve = f.g_at_resolve, !.composed = f.composed,
                     !.result = [NoProcessingResult EXCEPT !.success = f.result.success,
                                                           !.augmented_image = f.result.augmented_image,
                                                           !.applied_transforms = f.result.applied_transforms,
                                                           !.skipped_transforms = f.result.skipped_transforms]]

\* The caller keeps a finished call that had a call seed, to compare a
\* later call with it.
ProcRemember ==
    /\ proc.pc = "done"
    /\ proc.seed # NoSeed
    /\ last' = Remembered(proc)
    /\ proc' = ProcIdle
    /\ UNCHANGED <<hooks, regop, global_seed, seedop, runs, call>>
    /\ UNCHANGED runVars

\* process_image calls on one-transform lists one after the other, any of
\* them remembered, and set_global_seed at any point between their
\* statements.
NextRepeat ==
    \/ \E seed \in SeedOpt : set_global_seed(seed)
    \/ proc.pc = "idle" /\ \E image \in RepeatImages, transforms \in RepeatLists, seed \in SeedOpt : ProcSubmit(image, transforms, seed)
    \/ ProcValidate
    \/ ProcResolve
    \/ ProcMetadata
    \/ \E composeOk \in BOOLEAN : ProcCompile(composeOk)
    \/ \E x \in ExecOutcome : ProcExecute(x)
    \/ ProcReturn
    \/ ProcRemember

SpecRepeat == Init /\ [][NextRepeat]_vars

\* Two runs started by two concurrent requests; a run gives way to the
\* other at each await.
NextTwoRuns ==
    \/ \E s \in {"pre_mcp", "post_mcp"}, hook \in BaseHook : RegisterAtStartup(s, hook)
    \/ \E r \in Runs : RunStart(r)
    \/ \E r \in Runs : \E out \in RunHookOutcome(r) : RunHookCompletes(r, out)
    \/ \E r \in Runs : \E pr \in RunParserOutcome(r) : RunAfterPreStage(r, pr)
    \/ \E r \in Runs : RunAfterPostStage(r)

SpecTwoRuns == Init /\ [][NextTwoRuns]_vars

\* ------------------------------------------------------------------------
\* Vocabulary of the properties
\* ------------------------------------------------------------------------

\* The invocations that belong to the current execute_stage call.
CallInvocations == (entry.from + 1) .. Len(started)

Completed(k) == k <= Len(finished)

FailedOutcome(out) == out.kind = "raise" \/ ~out.success

EarlyExitOutcome(out) == out.kind = "return" /\ out.success /\ ~out.should_continue

StopRequested(out) == out.kind = "return" /\ ~out.should_continue

CriticalFailureAt(k) == started[k].hook.critical /\ FailedOutcome(finished[k].out)

ExecReturned == pc \in {"returned", "done"}

\* No hook of the current call failed critically or asked to stop.
NoStoppingCondition ==
    \A k \in CallInvocations : Completed(k) => (~CriticalFailureAt(k) /\ ~StopRequested(finished[k].out))

\* ------------------------------------------------------------------------
\* Properties
\* ------------------------------------------------------------------------

\* C1: once a critical hook has failed (declared failure or raise) in an
\* execute_stage call, the call has returned success=false with
\* should_continue=false, and no hook after the failing one was started.
C1_CriticalFailureStops ==
    \A k \in CallInvocations :
        (Completed(k) /\ CriticalFailureAt(k)) =>
            /\ ExecReturned
            /\ result.success = FALSE
            /\ result.should_continue = FALSE
            /\ Len(started) = k

\* A critical hook failed with a hook registered after it in the stage.
C1_Witness ==
    \E k \in CallInvocations :
        /\ Completed(k)
        /\ CriticalFailureAt(k)
        /\ finished[k].out.kind = "raise"
        /\ started[k].pos < Len(hooks[stage])
        /\ ExecReturned

\* C3: hooks of a call are invoked in registration order, one at a time (a
\* hook is started only when every hook started before it has completed),
\* and a call without stopping condition runs every registered hook once
\* and returns success=true, should_continue=true with the final context.
C3_SequentialInOrder ==
    /\ Len(finished) <= Len(started)
    /\ Len(started) <= Len(finished) + 1
    /\ (pc = "await") = (Len(started) = Len(finished) + 1)
    /\ \A k \in CallInvocations :
           /\ started[k].stage = stage
           /\ started[k].pos = k - entry.from
           /\ started[k].pos <= Len(hooks[stage])
           /\ started[k].hook = hooks[stage][k - entry.from]
    /\ (pc = "returned" /\ NoStoppingCondition) =>
           /\ Len(started) - entry.from = Len(hooks[stage])
           /\ result = HookResult(TRUE, context, NoneStr, TRUE)

\* A two-hook stage ran to its end, its first hook having failed.
C3_Witness ==
    /\ pc = "returned"
    /\ NoStoppingCondition
    /\ Len(hooks[stage]) = 2
    /\ Len(finished) - entry.from = 2
    /\ FailedOutcome(finished[entry.from + 1].out)

\* The step in which the awaited hook completes with a deliberate early exit.
C4_EarlyExitStep ==
    /\ pc = "await"
    /\ Len(finished') = Len(finished) + 1
    /\ EarlyExitOutcome(finished'[Len(finished')].out)

\* C4: a hook result with success=true and should_continue=false makes
\* execute_stage return success=true, should_continue=false at once: no
\* later hook is started, and no context gets an entry appended to errors.
C4_EarlyExit ==
    /\ [][C4_EarlyExitStep =>
            /\ pc' = "returned"
            /\ result'.success = TRUE
            /\ result'.should_continue = FALSE
            /\ started' = started
            /\ \A c \in DOMAIN heap : heap'[c].errors = heap[c].errors
            /\ \A c \in (DOMAIN heap') \ (DOMAIN heap) : heap'[c].errors = heap[context].errors]_vars
    /\ [](\A k \in CallInvocations : (Completed(k) /\ EarlyExitOutcome(finished[k].out)) => (ExecReturned /\ Len(started) = k))

\* A hook left early with another hook registered after it.
C4_Witness ==
    \E k \in CallInvocations :
        /\ Completed(k)
        /\ EarlyExitOutcome(finished[k].out)
        /\ started[k].pos < Len(hooks[stage])
        /\ pc = "returned"

\* The entries of errs that report a failure of the hook named n.
FailureEntries(errs, n) ==
    {i \in DOMAIN errs : \E d \in Reasons \cup {NoneStr} : errs[i] \in {FailedMsg(n, d), RaisedMsg(n, d)}}

\* C2: in a stage [A, B] with A non-critical and failing and B succeeding,
\* execute_stage returns success, the returned context's errors hold exactly
\* one entry for A and B's effects are in the returned context; and a
\* non-critical failure (that asks for no stop) is followed by the next hook.
C2_NonCriticalFailureContinues ==
    /\ \A k \in CallInvocations :
           (/\ Completed(k)
            /\ FailedOutcome(finished[k].out)
            /\ ~StopRequested(finished[k].out)
            /\ ~started[k].hook.critical
            /\ started[k].pos < Len(hooks[stage])) => Len(started) > k
    /\ (/\ pc = "returned"
        /\ Len(hooks[stage]) = 2
        /\ Len(finished) - entry.from = 2
        /\ ~hooks[stage][1].critical
        /\ FailedOutcome(finished[entry.from + 1].out)
        /\ ~FailedOutcome(finished[entry.from + 2].out)) =>
           /\ result.success = TRUE
           /\ Cardinality(FailureEntries(heap[result.context].errors, hooks[stage][1].name)) = 1
           /\ HookMark(hooks[stage][2].name) \in heap[result.context].metadata

\* A hook that raises with description d, and one that returns the declared
\* failure HookResult(success=False, error=d).
RaiseOf(d) == [kind |-> "raise", success |-> FALSE, error |-> d, should_continue |-> TRUE, ctx |-> "none"]

DeclaredOf(d) == [kind |-> "return", success |-> FALSE, error |-> d, should_continue |-> TRUE, ctx |-> "none"]

\* What execute_stage makes of outcome out of the hook it is awaiting.
ExecutorView(out) ==
    LET hook == hooks[stage][idx]
        b == LoopBody(hook, HookExecute(hook, out, context, heap), context)
    IN  [errors |-> b.heap[context].errors, returns |-> b.returns, success |-> b.result.success,
         should_continue |-> b.result.should_continue, error |-> b.result.error, context |-> b.context]

\* C5 as stated: a fault with description d has exactly the effect of the
\* declared failure with error d: same errors entry, same result, same
\* continuation.
C5_FaultSameAsDeclared ==
    pc = "await" => \A d \in Reasons : ExecutorView(RaiseOf(d)) = ExecutorView(DeclaredOf(d))

\* C5 amended: a fault has the effect of the declared failure but for the
\* wording: its entry (and the error of a critical hook's result) reads
\* "Hook <name> raised exception: <d>" where the declared failure's reads
\* "Hook <name> failed: <d>"; success, should_continue, the context handed
\* on and the continuation to later hooks are the same.
C5_FaultLikeDeclaredButWording ==
    pc = "await" =>
        \A d \in Reasons :
            LET f == ExecutorView(RaiseOf(d))
                g == ExecutorView(DeclaredOf(d))
                n == hooks[stage][idx].name
            IN  /\ f.returns = g.returns
                /\ f.returns = hooks[stage][idx].critical
                /\ f.success = g.success
                /\ f.should_continue = g.should_continue
                /\ f.context = g.context
                /\ f.errors = Append(heap[context].errors, "Hook " \o n \o " raised exception: " \o d)
                /\ g.errors = Append(heap[context].errors, "Hook " \o n \o " failed: " \o d)
                /\ f.returns => (f.error = "Hook " \o n \o " raised exception: " \o d /\ g.error = "Hook " \o n \o " failed: " \o d)

\* A critical hook is awaited after an earlier hook of the call raised.
C5_Witness ==
    /\ pc = "await"
    /\ hooks[stage][idx].critical
    /\ idx = 2
    /\ finished[Len(finished)].out.kind = "raise"
    /\ heap[context].errors # <<>>

\* The step in which the awaited hook completes.
HookCompletesStep == pc = "await" /\ Len(finished') = Len(finished) + 1

\* C6 as stated: a failing hook makes execute_stage append exactly the one
\* string "<hook-name> failed: <reason>" to context.errors; a succeeding
\* hook makes it append nothing.
C6_ErrorEntryForm ==
    [][HookCompletesStep =>
        LET out == finished'[Len(finished')].out
            n == hooks[stage][idx].name
        IN  /\ heap'[context].errors = IF FailedOutcome(out) THEN Append(heap[context].errors, n \o " failed: " \o out.error) ELSE heap[context].errors
            /\ \A c \in (DOMAIN heap) \ {context} : heap'[c].errors = heap[c].errors]_vars

\* C6 amended: a failing hook makes execute_stage append exactly one string
\* to context.errors, "Hook <hook-name> failed: <reason>" for a declared
\* failure and "Hook <hook-name> raised exception: <reason>" for a fault; a
\* succeeding hook makes it append nothing; no other context's errors change.
C6_ErrorEntryFormInCode ==
    [][HookCompletesStep =>
        LET out == finished'[Len(finished')].out
            n == hooks[stage][idx].name
            msg == IF out.kind = "raise" THEN "Hook " \o n \o " raised exception: " \o out.error ELSE "Hook " \o n \o " failed: " \o out.error
        IN  /\ heap'[context].errors = IF FailedOutcome(out) THEN Append(heap[context].errors, msg) ELSE heap[context].errors
            /\ \A c \in (DOMAIN heap) \ {context} : heap'[c].errors = heap[c].errors]_vars

\* A hook failed on a context that already carried an error.
C6_Witness ==
    /\ Len(finished) > entry.from
    /\ FailedOutcome(finished[Len(finished)].out)
    /\ Len(heap[started[Len(finished)].ctx].errors) >= 2

\* C7 as stated: a context carried by a hook's result is the one passed to
\* the next hook and the one returned if the call ends there; a result that
\* carries none (and a raise) leaves the incoming context object in place.
C7_ReplacementAdopted ==
    \A k \in CallInvocations :
        Completed(k) =>
            LET kept == IF finished[k].rctx # NoneCtx THEN finished[k].rctx ELSE started[k].ctx
            IN  /\ k < Len(started) => started[k + 1].ctx = kept
                /\ (k = Len(started) /\ pc = "returned") => result.context = kept

\* C7 amended: as stated, except that the context carried by the failing
\* result of a critical hook is not adopted: that call returns at once with
\* the context the critical hook was given.
C7_ReplacementAdoptedUnlessCriticalFailure ==
    \A k \in CallInvocations :
        Completed(k) =>
            LET kept == IF finished[k].rctx # NoneCtx /\ ~CriticalFailureAt(k) THEN finished[k].rctx ELSE started[k].ctx
            IN  /\ k < Len(started) => started[k + 1].ctx = kept
                /\ (k = Len(started) /\ pc = "returned") => result.context = kept

\* A hook returned a new context object, the next hook was given it and,
\* carrying no context itself, left it to be returned.
C7_Witness ==
    /\ pc = "returned"
    /\ Len(finished) - entry.from = 2
    /\ finished[entry.from + 1].rctx \notin {NoneCtx, started[entry.from + 1].ctx}
    /\ started[entry.from + 2].ctx = finished[entry.from + 1].rctx
    /\ finished[entry.from + 2].rctx = NoneCtx
    /\ result.context = finished[entry.from + 1].rctx

\* C8: for a stage without hooks execute_stage returns success=true,
\* should_continue=true and the very context it was given, whose content
\* is as it was at the call, and no hook is invoked.
C8_EmptyStage ==
    (pc = "returned" /\ hooks[stage] = <<>>) =>
        /\ result = HookResult(TRUE, entry.ctx, NoneStr, TRUE)
        /\ heap[entry.ctx] = entry.val
        /\ Len(started) = entry.from
        /\ Len(finished) = entry.from

\* execute_stage returned for an empty stage, on a context with an error
\* in it, while another stage holds hooks.
C8_Witness ==
    /\ pc = "returned"
    /\ hooks[stage] = <<>>
    /\ stage = "post_transform"
    /\ entry.val.errors # <<>>
    /\ TotalHooks > 0

\* C9: when the Pre-MCP stage ends a run (failure or should_continue=false),
\* the response carries the metadata, errors and warnings of the context
\* the stage returned.
C9_StopResponseCarriesContext ==
    (mode = "pipeline" /\ pc = "done" /\ stage = "pre_mcp" /\ PreStageStops(result)) =>
        /\ response.errors = heap[result.context].errors
        /\ response.metadata = heap[result.context].metadata
        /\ response.warnings = heap[result.context].warnings

\* Whether a critical hook of stage s failed in this run.
CriticalFailureIn(s) ==
    \E k \in 1 .. Len(finished) : started[k].stage = s /\ CriticalFailureAt(k)

StopRequestedIn(s) ==
    \E k \in 1 .. Len(finished) : started[k].stage = s /\ StopRequested(finished[k].out)

ParserFailed ==
    \E d \in Reasons : response.message \in {"Prompt parsing failed: " \o d, "Pipeline execution failed: " \o d}

PipelineDone == mode = "pipeline" /\ pc = "done"

ResponseFields == {"success", "session_id", "transforms", "metadata", "warnings", "errors", "message"}

\* C11: parse_prompt_with_hooks never lets an exception out: whatever the
\* hooks do (return, declare a failure, raise) and whatever the parser does
\* (a result, PromptParsingError, another exception), the run ends with a
\* response that has exactly the fields success (a boolean), session_id,
\* transforms, metadata, warnings, errors and message.
C11_NeverPropagates ==
    /\ pc # "raised"
    /\ PipelineDone =>
           /\ DOMAIN response = ResponseFields
           /\ response.success \in BOOLEAN
           /\ response.session_id = "s1"

\* A run in which a Pre-MCP hook raised and then the parser raised an
\* exception that is not PromptParsingError, and that ended with a response.
C11_Witness ==
    /\ PipelineDone
    /\ \E d \in Reasons : response.message = "Pipeline execution failed: " \o d
    /\ \E k \in 1 .. Len(finished) : finished[k].out.kind = "raise"

\* A step of unregister_hook (a call that changed nothing and returned what
\* the call before it returned is a stuttering step).
UnregisterStep ==
    /\ regop'.op = "unregister"
    /\ <<hooks', regop'>> # <<hooks, regop>>

\* C12: unregister_hook(stage, name) removes the first hook of the stage
\* with that name and returns true, or removes nothing and returns false
\* when the stage has no such hook; the hooks before the removed one keep
\* their places, the hooks after it (later hooks of the same name included)
\* move up by one in the same order, and no other stage changes.
C12_UnregisterFirstMatch ==
    [][UnregisterStep =>
        LET s == regop'.stage
            n == regop'.name
            matches == {i \in DOMAIN hooks[s] : hooks[s][i].name = n}
        IN  /\ \A t \in HookStage \ {s} : hooks'[t] = hooks[t]
            /\ IF matches = {}
               THEN regop'.ret = FALSE /\ hooks'[s] = hooks[s]
               ELSE LET m == CHOOSE i \in matches : \A j \in matches : i <= j
                    IN  /\ regop'.ret = TRUE
                        /\ Len(hooks'[s]) = Len(hooks[s]) - 1
                        /\ \A i \in 1 .. (m - 1) : hooks'[s][i] = hooks[s][i]
                        /\ \A i \in m .. (Len(hooks[s]) - 1) : hooks'[s][i] = hooks[s][i + 1]
    ]_vars

\* unregister_hook returned true and a later hook of the same name is still
\* registered to the stage.
C12_Witness ==
    /\ regop.op = "unregister"
    /\ regop.ret = TRUE
    /\ \E i \in DOMAIN hooks[regop.stage] : hooks[regop.stage][i].name = regop.name

\* A step of register_hook on the registry.
RegisterStep ==
    /\ regop'.op = "register"
    /\ hooks' # hooks

\* C13: list_hooks returns one entry for each of the eight stages, and the
\* entry of a stage is the names of the hooks registered to it, in order,
\* duplicates included; register_hook appends the hook to the end of its
\* stage's list, whatever names the list already holds, and changes no
\* other stage.
C13_ListHooksIsRegistry ==
    /\ [](regop.op = "list" =>
            /\ DOMAIN regop.listing = HookStage
            /\ Cardinality(DOMAIN regop.listing) = 8
            /\ \A s \in HookStage :
                   /\ Len(regop.listing[s]) = Len(hooks[s])
                   /\ \A i \in 1 .. Len(hooks[s]) : regop.listing[s][i] = hooks[s][i].name)
    /\ [][RegisterStep =>
            LET s == regop'.stage
            IN  /\ Len(hooks'[s]) = Len(hooks[s]) + 1
                /\ \A i \in 1 .. Len(hooks[s]) : hooks'[s][i] = hooks[s][i]
                /\ hooks'[s][Len(hooks[s]) + 1].name = regop'.name
                /\ \A t \in HookStage \ {s} : hooks'[t] = hooks[t]
       ]_vars

\* list_hooks returned a stage's entry that holds the same name twice.
C13_Witness ==
    /\ regop.op = "list"
    /\ \E s \in HookStage : Len(regop.listing[s]) = 2 /\ regop.listing[s][1] = regop.listing[s][2]

\* ------------------------------------------------------------------------
\* Claims on the seed manager and on process_image
\* ------------------------------------------------------------------------

\* The call in progress passed image validation.
ProcValid == validate_image(proc.image) = <<>>

\* Line 96 has run in the call in progress.
Resolved == proc.pc \in {"metadata", "compile", "execute"} \/ (proc.pc = "done" /\ ProcValid)

\* Line 97 has run in the call in progress.
MetadataBuilt == proc.pc \in {"compile", "execute"} \/ (proc.pc = "done" /\ ProcValid)

\* _create_pipeline has returned in the call in progress.
Compiled == proc.pc = "execute" \/ (proc.pc = "done" /\ ProcValid)

\* The precedence of seed resolution: the call seed, else the global seed,
\* else none.
ByPrecedence(c, g) == IF c # NoSeed THEN c ELSE IF g # NoSeed THEN g ELSE NoSeed

\* C14: get_effective_seed(c) is c when c is not none, else the global
\* seed g when g is not none, else none, for every c and g; a call seed of
\* 0 is returned as it is.  It holds of the function and of the value line
\* 96 of every process_image call computed.
C14_EffectiveSeedPrecedence ==
    /\ \A c \in SeedOpt, g \in SeedOpt : get_effective_seed(c, g) = ByPrecedence(c, g)
    /\ \A g \in SeedOpt : get_effective_seed(<<0>>, g) = <<0>>
    /\ Resolved => proc.effective_seed = ByPrecedence(proc.seed, proc.g_at_resolve)

\* A call with the call seed 0 resolved while the global seed was 7.
C14_Witness ==
    /\ Resolved
    /\ proc.seed = <<0>>
    /\ proc.g_at_resolve = <<7>>
    /\ proc.effective_seed = <<0>>

\* C15 as stated: the source tag of the seed metadata is "call" when a
\* call seed is given, else "global" when the global seed is set, else
\* "random"; reproducible is (effective seed is not none).
C15_SourceTag ==
    MetadataBuilt =>
        LET m == proc.seed_metadata
        IN  /\ m.seed_source \in {"call", "global", "random"}
            /\ m.seed_source = (IF proc.seed # NoSeed THEN "call" ELSE IF m.global_seed # NoSeed THEN "global" ELSE "random")
            /\ m.reproducible = (m.effective_seed # NoSeed)

\* C15 amended: the tag is "transform" when a call seed is given, else
\* "global" when the global seed get_seed_metadata read is set, else
\* "random"; reproducible is (effective seed is not none).
C15_SourceTagTransform ==
    MetadataBuilt =>
        LET m == proc.seed_metadata
        IN  /\ m.seed_source \in {"transform", "global", "random"}
            /\ m.seed_source = (IF proc.seed # NoSeed THEN "transform" ELSE IF m.global_seed # NoSeed THEN "global" ELSE "random")
            /\ m.reproducible = (m.effective_seed # NoSeed)
            /\ m.effective_seed = proc.effective_seed
            /\ m.transform_seed = proc.seed

\* The metadata of a call that passed the call seed 0 while a global seed
\* was set.
C15_Witness ==
    /\ MetadataBuilt
    /\ proc.seed = <<0>>
    /\ proc.seed_metadata.global_seed = <<7>>
    /\ proc.seed_metadata.reproducible

\* C16: the global seed is none at the start; get_global_seed returns the
\* argument of the most recent set_global_seed (none when that was none or
\* there was no set); only set_global_seed changes the global seed: no step
\* of process_image (get_effective_seed and get_seed_metadata included)
\* does.
C16_GlobalSeedIsLastSet ==
    /\ [](/\ global_seed = seedop.lastset
          /\ seedop.op = "none" => global_seed = NoSeed
          /\ seedop.op = "get" => seedop.ret = seedop.lastset)
    /\ [][/\ global_seed' # global_seed => (seedop'.op = "set" /\ global_seed' = seedop'.lastset /\ proc' = proc)
          /\ proc' # proc => global_seed' = global_seed
         ]_vars

\* get_global_seed returned none after a call had resolved its seed from
\* the global seed 7: the seed was cleared by set_global_seed(None).
C16_Witness ==
    /\ seedop.op = "get"
    /\ seedop.ret = NoSeed
    /\ proc.pc = "done"
    /\ proc.g_at_resolve = <<7>>

\* C17: a process_image call with an explicit call seed s composes its
\* pipeline with s and reports the effective seed s in the metadata of its
\* result, whatever set_global_seed did meanwhile; a call without a call
\* seed uses the global seed as it was when line 96 ran.
C17_CallSeedIsolated ==
    /\ proc.seed # NoSeed =>
           /\ proc.composed # <<>> => proc.composed[1].seed = proc.seed
           /\ proc.pc = "done" => proc.result.metadata.effective_seed = proc.seed
    /\ (proc.seed = NoSeed /\ Resolved) =>
           /\ proc.effective_seed = proc.g_at_resolve
           /\ proc.composed # <<>> => proc.composed[1].seed = proc.g_at_resolve
           /\ proc.pc = "done" => proc.result.metadata.effective_seed = proc.g_at_resolve

\* A call without a call seed ran its pipeline; the global seed was changed
\* between the call and line 96, and again afterwards.
C17_Witness ==
    /\ proc.pc = "done"
    /\ proc.seed = NoSeed
    /\ proc.composed # <<>>
    /\ proc.result.success
    /\ proc.g_at_submit # proc.g_at_resolve
    /\ global_seed # proc.g_at_resolve

\* Whether the compiler makes a transform of the spec: it has a non-empty
\* name the library knows and the constructor takes its cleaned parameters.
UsableSpec(spec) ==
    /\ "name" \in DOMAIN spec
    /\ spec.name # ""
    /\ spec.name \in KnownTransforms
    /\ ~ConstructorRaises(spec.name, validate_parameters(spec.name, GetOr(spec, "parameters", EmptyDict)))

\* C19: when no spec of the list is usable (the empty list included),
\* process_image on a valid image returns success=true, the input image,
\* no applied transform and the whole input list, in order, as skipped.
C19_NoValidSpecIsNoOp ==
    (proc.pc = "done" /\ ProcValid /\ \A i \in DOMAIN proc.transforms : ~UsableSpec(proc.transforms[i])) =>
        /\ proc.result.success = TRUE
        /\ proc.result.augmented_image = <<proc.image>>
        /\ proc.result.applied_transforms = <<>>
        /\ proc.result.skipped_transforms = proc.transforms

\* A call returned for a list of two different specs, one without a name
\* and one whose construction fails.
C19_Witness ==
    /\ proc.pc = "done"
    /\ ProcValid
    /\ Len(proc.transforms) = 2
    /\ "name" \notin DOMAIN proc.transforms[1]
    /\ "name" \in DOMAIN proc.transforms[2]
    /\ proc.transforms[2].name \in KnownTransforms
    /\ ~UsableSpec(proc.transforms[2])
    /\ proc.result.skipped_transforms = proc.transforms

\* The specs of the list that are usable / not usable, in input order.
UsableOf(transforms) == SelectAt(transforms, [i \in DOMAIN transforms |-> UsableSpec(transforms[i])], 1)

UnusableOf(transforms) == SelectAt(transforms, [i \in DOMAIN transforms |-> ~UsableSpec(transforms[i])], 1)

\* The pipeline was composed of one transform for each usable spec, in
\* order.
ComposedOfUsable ==
    /\ proc.composed # <<>>
    /\ Len(proc.composed[1].transforms) = Len(UsableOf(proc.transforms))
    /\ \A i \in 1 .. Len(UsableOf(proc.transforms)) : proc.composed[1].transforms[i].name = UsableOf(proc.transforms)[i].name

\* C20 as stated: for every input list the compiler records the unusable
\* specs as skipped and not as applied, and every usable spec is recorded
\* as applied and composed into the pipeline.
C20_SkipNeverFailsBatch ==
    Compiled =>
        /\ proc.skipped = UnusableOf(proc.transforms)
        /\ proc.applied = UsableOf(proc.transforms)
        /\ UsableOf(proc.transforms) # <<>> => ComposedOfUsable

\* C20 amended: the same, unless the list has a usable spec and A.Compose
\* raises: then nothing is recorded as applied, the whole input list is
\* recorded as skipped and there is no pipeline.
C20_SkipNeverFailsBatchUnlessComposeFails ==
    Compiled =>
        \/ /\ proc.skipped = UnusableOf(proc.transforms)
           /\ proc.applied = UsableOf(proc.transforms)
           /\ UsableOf(proc.transforms) # <<>> => ComposedOfUsable
        \/ /\ UsableOf(proc.transforms) # <<>>
           /\ proc.composed = <<>>
           /\ proc.applied = <<>>
           /\ proc.skipped = proc.transforms

\* A list of one unusable and one usable spec was compiled into a pipeline
\* of one transform.
C20_Witness ==
    /\ Compiled
    /\ Len(proc.transforms) = 2
    /\ ~UsableSpec(proc.transforms[1])
    /\ UsableSpec(proc.transforms[2])
    /\ proc.composed # <<>>
    /\ proc.applied = <<proc.transforms[2]>>
    /\ proc.skipped = <<proc.transforms[1]>>

\* ------------------------------------------------------------------------
\* Claim on concurrent runs
\* ------------------------------------------------------------------------

\* The context objects the frame of run r refers to.
ContextsOf(r) == {runs[r].context, runs[r].pctx, runs[r].result.context} \ {NoneCtx}

\* The error entries and warnings that can come from run r: those of its
\* hooks and of its parser call.
OwnErrors(r) ==
    {FailedMsg(n, ReasonOf(r)) : n \in HookNames} \cup {RaisedMsg(n, ReasonOf(r)) : n \in HookNames}
    \cup {"Prompt parsing failed: " \o ReasonOf(r)}

OwnWarnings(r) == {HookMark(n) : n \in HookNames} \cup {"warning for " \o SessionOf(r)}

\* C18: two concurrent runs of parse_prompt_with_hooks are independent.
\* Each run works on context objects of its own (they carry its session
\* id); a step of one run changes neither the frame nor a context object
\* of the other; and the response of a run carries its own session id and
\* only errors and warnings that its own hooks and parser call produced.
C18_RunsIndependent ==
    /\ [](\A r \in Runs :
            /\ runs[r].pc # "new" => runs[r].pctx # NoneCtx
            /\ \A c \in ContextsOf(r) : heap[c].session_id = SessionOf(r) /\ heap[c].original_prompt = PromptOf(r)
            /\ ContextsOf(r) \cap ContextsOf(OtherRun(r)) = {}
            /\ runs[r].pc = "done" =>
                   /\ runs[r].response.session_id = SessionOf(r)
                   /\ \A i \in DOMAIN runs[r].response.errors : runs[r].response.errors[i] \in OwnErrors(r)
                   /\ \A i \in DOMAIN runs[r].response.warnings : runs[r].response.warnings[i] \in OwnWarnings(r))
    /\ [][\A r \in Runs :
            runs'[r] # runs[r] =>
                /\ runs'[OtherRun(r)] = runs[OtherRun(r)]
                /\ \A c \in DOMAIN heap : heap[c].session_id = SessionOf(OtherRun(r)) => heap'[c] = heap[c]
         ]_vars

\* Both runs ended after their steps alternated: run 1 created its context,
\* then run 2, then a hook gave run 1 a new context, then one gave run 2 a
\* new context; run 1 succeeded and run 2 failed with an error entry.
C18_Witness ==
    /\ runs[1].pc = "done"
    /\ runs[2].pc = "done"
    /\ Len(heap) = 4
    /\ heap[1].session_id = "s1"
    /\ heap[2].session_id = "s2"
    /\ heap[3].session_id = "s1"
    /\ heap[4].session_id = "s2"
    /\ runs[1].response.success
    /\ ~runs[2].response.success
    /\ runs[2].response.errors # <<>>

\* ------------------------------------------------------------------------
\* Claims on the failures of process_image
\* ------------------------------------------------------------------------

\* A.Compose was called in the call in progress and raised: the list has a
\* usable spec and there is no pipeline.
ComposeFailed == Compiled /\ UsableOf(proc.transforms) # <<>> /\ proc.composed = <<>>

\* The pipeline was called in the call that ended, and raised.
ExecutionFailed == proc.pc = "done" /\ proc.composed # <<>> /\ "error" \in DOMAIN proc.result.metadata

\* validate_image raised in the call that ended.
ValidationFailed == proc.pc = "done" /\ ~ProcValid

\* C21: when the list has a valid transform and composing the pipeline
\* fails, the result has success=false and an error message, unlike the
\* success-with-no-op result of a list without valid transform.
C21_ComposeFailureIsHardFailure ==
    (proc.pc = "done" /\ ComposeFailed) =>
        /\ proc.result.success = FALSE
        /\ proc.result.error_message # NoneStr

\* C22: every failed result of process_image, from image validation or
\* from pipeline execution, has success=false, the input image as
\* augmented_image, no applied transform and the full input list as
\* skipped.
C22_FailureKeepsOriginalImage ==
    (ValidationFailed \/ ExecutionFailed) =>
        /\ proc.result.success = FALSE
        /\ proc.result.augmented_image = <<proc.image>>
        /\ proc.result.applied_transforms = <<>>
        /\ proc.result.skipped_transforms = proc.transforms

SizeAndCountFields == {"original_size", "output_size", "transforms_applied", "transforms_skipped"}

SeedFields == DOMAIN NoSeedMetadata

\* C23: the metadata of every result has the original and output size,
\* the applied and skipped counts and the seed-provenance fields; that of a
\* result with success=true has the content hash of the transform list too.
C23_MetadataComplete ==
    proc.pc = "done" =>
        /\ SizeAndCountFields \subseteq DOMAIN proc.result.metadata
        /\ SeedFields \subseteq DOMAIN proc.result.metadata
        /\ proc.result.success => "pipeline_hash" \in DOMAIN proc.result.metadata

\* C24: process_image does not raise for a validation error, a
\* construction error of one transform, a pipeline-build error or a
\* pipeline-execution error: it returns a result, and success is false
\* exactly when validation, the build or the execution failed (a
\* construction error of one transform only skips that transform).
C24_NeverRaises ==
    /\ proc.pc # "raised"
    /\ proc.pc = "done" =>
           /\ proc.result.success \in BOOLEAN
           /\ proc.result.success = ~(ValidationFailed \/ ComposeFailed \/ ExecutionFailed)

\* ------------------------------------------------------------------------
\* Claims on the clamping rules
\* ------------------------------------------------------------------------

\* _validate_parameters was called with a number for parameter k.
CleanedNumber(k) == call.op = "clean" /\ k \in DOMAIN call.parameters /\ IsNumber(call.parameters[k])

\* h (in halves) clamped to [lo, hi] (in halves).
Clamped(lo, h, hi) == IF h < lo THEN lo ELSE IF h > hi THEN hi ELSE h

\* C25: the limit of a Rotate spec is compiled to the limit clamped to
\* [-180, 180]; for the list [Rotate with limit v, Bogus] Rotate is
\* instantiated with the clamped limit (180 for 999), Bogus is skipped, and
\* applied and skipped have one entry each.
C25_RotateLimitClamped ==
    /\ (CleanedNumber("limit") /\ call.name = "Rotate") =>
           call.cleaned["limit"] = Num(Clamped(-360, call.parameters["limit"].v, 360))
    /\ call.op = "compile" =>
           LET v == call.transforms[1].parameters["limit"].v
           IN  /\ call.made.pipeline # <<>>
               /\ Len(call.made.pipeline[1].transforms) = 1
               /\ call.made.pipeline[1].transforms[1].name = "Rotate"
               /\ call.made.pipeline[1].transforms[1].params["limit"] = Num(Clamped(-360, v, 360))
               /\ v = 1998 => call.made.pipeline[1].transforms[1].params["limit"] = FromInt(180)
               /\ call.made.applied = <<call.transforms[1]>>
               /\ call.made.skipped = <<call.transforms[2]>>
               /\ call.transforms[2].name = "Bogus"

\* The list [Rotate with limit 999, Bogus] was compiled.
C25_Witness ==
    /\ call.op = "compile"
    /\ call.transforms[1].parameters["limit"] = FromInt(999)
    /\ Len(call.made.applied) = 1
    /\ Len(call.made.skipped) = 1

BlurFamily == {"Blur", "GaussianBlur", "MotionBlur"}

\* C26: for every integer blur_limit v of a blur-family transform the
\* cleaned blur_limit is an odd integer in [3, 99]; it is v when v is an
\* odd integer in [3, 99], and differs from v by exactly 1 when v is an
\* even integer in [3, 99].
C26_BlurLimitOdd ==
    (CleanedNumber("blur_limit") /\ call.name \in BlurFamily /\ call.parameters["blur_limit"].v % 2 = 0) =>
        LET v == call.parameters["blur_limit"].v \div 2
            c == call.cleaned["blur_limit"]
            m == c.v \div 2
        IN  /\ IsNumber(c)
            /\ c.v % 2 = 0
            /\ m % 2 = 1
            /\ 3 <= m /\ m <= 99
            /\ (v % 2 = 1 /\ 3 <= v /\ v <= 99) => m = v
            /\ (v % 2 = 0 /\ 3 <= v /\ v <= 99) => (m - v = 1 \/ v - m = 1)

\* A negative even size was cleaned for GaussianBlur.
C26_Witness ==
    /\ CleanedNumber("blur_limit")
    /\ call.name = "GaussianBlur"
    /\ call.parameters["blur_limit"] = FromInt(-4)
    /\ call.cleaned["blur_limit"] = FromInt(3)

\* C27: for every transform name and every numeric p the parameter set
\* made for the constructor has p within [0, 1]: 0 for a p below 0, 1 for a
\* p above 1, p itself otherwise.
C27_ProbabilityClamped ==
    CleanedNumber("p") =>
        /\ call.cleaned["p"] = Num(Clamped(0, call.parameters["p"].v, 2))
        /\ call.args # <<>> => call.args[1]["p"] = Num(Clamped(0, call.parameters["p"].v, 2))

\* p = 1.5 was given to a blur-family transform next to a blur_limit, and
\* the constructor's arguments were made.
C27_Witness ==
    /\ CleanedNumber("p")
    /\ call.name = "Blur"
    /\ "blur_limit" \in DOMAIN call.parameters
    /\ call.parameters["p"] = Num(3)
    /\ call.args # <<>>
    /\ call.args[1]["p"] = Num(2)

\* C28: _validate_parameters is idempotent: applied to what it returned it
\* returns the same, for every name and parameter mapping.
C28_ClampingIdempotent ==
    call.op = "clean" => call.recleaned = call.cleaned

\* A call that changed both a blur_limit and p.
C28_Witness ==
    /\ call.op = "clean"
    /\ call.name = "MotionBlur"
    /\ {"blur_limit", "p"} \subseteq DOMAIN call.parameters
    /\ {"blur_limit", "p"} \subseteq DOMAIN call.cleaned
    /\ call.cleaned["blur_limit"] # call.parameters["blur_limit"]
    /\ call.cleaned["p"] # call.parameters["p"]
    /\ call.recleaned = call.cleaned

\* C29: the parameter set made for the constructor holds no None value and
\* no parameter the named transform does not take.
C29_UnknownParametersDropped ==
    (call.op = "clean" /\ call.args # <<>>) =>
        \A k \in DOMAIN call.args[1] :
            /\ call.args[1][k].t # "none"
            /\ k \in ParamsOf(call.name)

\* What the library did in the call of frame f: A.Compose raised, the
\* pipeline call raised, or the pipeline ran.
LibraryOutcome(f) ==
    IF f.composed = <<>> THEN "compose_failed"
    ELSE IF f.result.success THEN "executed"
    ELSE "execution_failed"

\* Frame f is a finished call on a valid image, a list of one usable spec
\* and a call seed.
SeededSingleCall(f) ==
    /\ f.pc = "done"
    /\ validate_image(f.image) = <<>>
    /\ Len(f.transforms) = 1
    /\ UsableSpec(f.transforms[1])
    /\ f.seed # NoSeed

\* C30: two finished process_image calls on the same valid image, the same
\* one-transform list and the same call seed, in which the library did the
\* same, return the same augmented image and the same applied and skipped
\* lists, whatever the global seed was during each and whatever calls were
\* made between them.
C30_SeededCallsRepeat ==
    (/\ SeededSingleCall(proc)
     /\ SeededSingleCall(last)
     /\ proc.image = last.image
     /\ proc.transforms = last.transforms
     /\ proc.seed = last.seed
     /\ LibraryOutcome(proc) = LibraryOutcome(last)) =>
        /\ proc.result.augmented_image = last.result.augmented_image
        /\ proc.result.applied_transforms = last.result.applied_transforms
        /\ proc.result.skipped_transforms = last.result.skipped_transforms

\* The same seeded call ran twice, the pipeline ran in both, and the global
\* seed was 0 when one resolved its seed and unset when the other did.
C30_Witness ==
    /\ SeededSingleCall(proc)
    /\ SeededSingleCall(last)
    /\ proc.image = last.image
    /\ proc.transforms = last.transforms
    /\ proc.seed = <<7>>
    /\ last.seed = <<7>>
    /\ LibraryOutcome(proc) = "executed"
    /\ LibraryOutcome(last) = "executed"
    /\ proc.g_at_resolve = <<0>>
    /\ last.g_at_resolve = NoSeed
    /\ proc.result.augmented_image = last.result.augmented_image
    /\ proc.result.augmented_image[1].pixels # <<>>

\* The positions of the stage's list at which the current call started a hook.
StartedPositions == {started[k].pos : k \in CallInvocations}

\* C31: an execute_stage call in which every awaited hook completes, the
\* registry being left alone, returns, having invoked each registered hook
\* of the stage at most once; while a hook is awaited nothing but that
\* hook's completion moves the call (there is no timeout), so the call
\* stays where it is for as long as the hook does not complete.
C31_StageTerminates ==
    /\ [](/\ Len(started) - entry.from <= Len(hooks[stage])
          /\ Cardinality(StartedPositions) = Len(started) - entry.from)
    /\ [][pc = "await" => (hooks' = hooks /\ Len(finished') = Len(finished) + 1)]_vars
    /\ ((pc = "await") ~> (pc \in {"returned", "done"}))

\* The Post-MCP stage of a run returned after both its hooks were invoked.
C31_Witness ==
    /\ mode = "pipeline"
    /\ stage = "post_mcp"
    /\ pc = "returned"
    /\ Len(hooks[stage]) = 2
    /\ StartedPositions = {1, 2}

\* The entry execute_stage records for the k-th invocation, in a
\* one-element sequence, or <<>> when the hook did not fail.
FailureEntryOf(k) ==
    LET out == finished[k].out
        n == started[k].hook.name
    IN  IF out.kind = "raise" THEN <<RaisedMsg(n, out.error)>>
        ELSE IF ~out.success THEN <<FailedMsg(n, out.error)>>
        ELSE <<>>

\* The entries of the invocations k, k+1, ... that have completed.
RECURSIVE FailureEntriesFrom(_)
FailureEntriesFrom(k) ==
    IF k > Len(finished) THEN <<>> ELSE FailureEntryOf(k) \o FailureEntriesFrom(k + 1)

\* C32: the errors of the context an execute_stage call returns are the
\* errors the incoming context had at the call, followed by one entry per
\* hook that failed in the call, in order, also when a hook handed back a
\* replacement context.
C32_ErrorsAppendOnly ==
    (mode = "direct" /\ pc = "returned") =>
        heap[result.context].errors = entry.val.errors \o FailureEntriesFrom(entry.from + 1)

\* C33: in a parse_prompt_with_hooks run the Pre-MCP hooks come first, then
\* the parser, called at most once and with the original_prompt of the
\* context the Pre-MCP stage returned, then the Post-MCP hooks; when the
\* Pre-MCP stage ends with a failure or with should_continue=false the
\* parser is not called and no Post-MCP hook is started; when the parser
\* reports a parsing error no Post-MCP hook is started and the response has
\* success=false.
C33_StagesInOrder ==
    mode = "pipeline" =>
        /\ Len(parsed) <= 1
        /\ \A k \in 1 .. Len(started) :
               /\ started[k].stage \in {"pre_mcp", "post_mcp"}
               /\ started[k].stage = "post_mcp" => (parsed # <<>> /\ parsed[1].at < k)
               /\ started[k].stage = "pre_mcp" => (parsed = <<>> \/ k <= parsed[1].at)
        /\ parsed # <<>> =>
               /\ parsed[1].at = Len(finished) \/ parsed[1].at < Len(started)
               /\ ~CriticalFailureIn("pre_mcp")
               /\ ~StopRequestedIn("pre_mcp")
               /\ parsed[1].prompt = heap[parsed[1].ctx].original_prompt
               /\ parsed[1].ctx = (IF stage = "pre_mcp" THEN result.context ELSE entry.ctx)
        /\ (pc = "done" /\ stage = "pre_mcp" /\ (CriticalFailureIn("pre_mcp") \/ StopRequestedIn("pre_mcp"))) =>
               (parsed = <<>> /\ response.success = FALSE)
        /\ (pc = "done" /\ \E d \in Reasons : response.message = "Prompt parsing failed: " \o d) =>
               /\ response.success = FALSE
               /\ Len(parsed) = 1
               /\ \A k \in 1 .. Len(started) : started[k].stage = "pre_mcp"

\* A run with a Pre-MCP hook and a Post-MCP hook in which both ran, the
\* Pre-MCP hook having handed back a replacement context.
C33_Witness ==
    /\ PipelineDone
    /\ Len(parsed) = 1
    /\ Len(started) = 2
    /\ started[1].stage = "pre_mcp"
    /\ started[2].stage = "post_mcp"
    /\ parsed[1].ctx # started[1].ctx
    /\ parsed[1].at = 1

\* C34: an execute_stage call returns success=false exactly when a critical
\* hook failed in it (declared failure or raise); a result with
\* success=false has should_continue=false and a non-empty error; a
\* non-critical hook that declares a failure together with
\* should_continue=false ends the call with success=true,
\* should_continue=false.
C34_FailureIffCriticalFailed ==
    pc = "returned" =>
        /\ (result.success = FALSE) <=> (\E k \in CallInvocations : Completed(k) /\ CriticalFailureAt(k))
        /\ result.success = FALSE =>
               /\ result.should_continue = FALSE
               /\ result.error \notin {NoneStr, ""}
        /\ \A k \in CallInvocations :
               (/\ Completed(k)
                /\ ~started[k].hook.critical
                /\ FailedOutcome(finished[k].out)
                /\ StopRequested(finished[k].out)) =>
                   /\ result.success = TRUE
                   /\ result.should_continue = FALSE
                   /\ Len(started) = k

\* A non-critical hook declared a failure with should_continue=false while
\* a critical hook was registered after it.
C34_Witness ==
    /\ pc = "returned"
    /\ mode = "direct"
    /\ Len(hooks[stage]) = 2
    /\ hooks[stage][2].critical
    /\ Len(finished) = entry.from + 1
    /\ ~started[Len(finished)].hook.critical
    /\ FailedOutcome(finished[Len(finished)].out)
    /\ StopRequested(finished[Len(finished)].out)
    /\ result.success = TRUE

\* The lists a and b split the list l: every position of l went to exactly
\* one of them, and each of them keeps the order of l.
Splits(l, a, b) ==
    \E keep \in [DOMAIN l -> BOOLEAN] :
        /\ a = SelectAt(l, keep, 1)
        /\ b = SelectAt(l, [i \in DOMAIN l |-> ~keep[i]], 1)

\* C35: in every result process_image returns, applied_transforms and
\* skipped_transforms split the input list (each input spec in exactly one
\* of them, input order kept, lengths adding up to the input's), and the
\* metadata's transforms_applied / transforms_skipped, where present, are
\* the lengths of the two lists.
C35_AppliedSkippedPartition ==
    proc.pc = "done" =>
        LET r == proc.result
        IN  /\ Splits(proc.transforms, r.applied_transforms, r.skipped_transforms)
            /\ Len(r.applied_transforms) + Len(r.skipped_transforms) = Len(proc.transforms)
            /\ "transforms_applied" \in DOMAIN r.metadata => r.metadata["transforms_applied"] = Len(r.applied_transforms)
            /\ "transforms_skipped" \in DOMAIN r.metadata => r.metadata["transforms_skipped"] = Len(r.skipped_transforms)

\* A call on [Bogus, Blur] whose pipeline ran: Blur applied, Bogus skipped,
\* and both counts in the metadata.
C35_Witness ==
    /\ proc.pc = "done"
    /\ Len(proc.transforms) = 2
    /\ proc.transforms[1] = [name |-> "Bogus"]
    /\ proc.result.applied_transforms = <<proc.transforms[2]>>
    /\ proc.result.skipped_transforms = <<proc.transforms[1]>>
    /\ {"transforms_applied", "transforms_skipped", "pipeline_hash"} \subseteq DOMAIN proc.result.metadata
    /\ proc.result.metadata["transforms_applied"] = 1
    /\ proc.result.metadata["transforms_skipped"] = 1

\* C36: the seed provenance in the metadata of a finished process_image
\* call agrees with the seed the call used, whatever set_global_seed
\* operations ran between its statements: seed_source is "random" exactly
\* when effective_seed is none, "global" only when effective_seed is the
\* reported global_seed, and reproducible is true exactly when the seed
\* given to the pipeline was not none.
C36_ProvenanceConsistent ==
    (proc.pc = "done" /\ "seed_source" \in DOMAIN proc.result.metadata) =>
        LET m == proc.result.metadata
        IN  /\ m.effective_seed = proc.effective_seed
            /\ (m.seed_source = "random") <=> (m.effective_seed = NoSeed)
            /\ m.seed_source = "global" => m.effective_seed = m.global_seed
            /\ m.reproducible <=> (proc.effective_seed # NoSeed)
            /\ proc.composed # <<>> => proc.composed[1].seed = proc.effective_seed

\* C37: a response of parse_prompt_with_hooks with success=false has at
\* least one entry in errors; a response with success=true is returned only
\* when the Pre-MCP stage ended without failure and without a stop request
\* and the parser returned a result.
C37_FailureResponseHasError ==
    PipelineDone =>
        /\ response.success = FALSE => response.errors # <<>>
        /\ response.success = TRUE =>
               /\ ~CriticalFailureIn("pre_mcp")
               /\ ~StopRequestedIn("pre_mcp")
               /\ Len(parsed) = 1
               /\ stage = "post_mcp"

\* C38: the transform made from a spec of the orchestrator that carries a
\* probability q is constructed with application probability q (p = q among
\* the constructor's arguments), and the library's default (no p among the
\* arguments) is left in place only for a spec without a probability.
C38_ProbabilityApplied ==
    (call.op = "create" /\ call.args # <<>>) =>
        LET spec == call.transforms[1]
            args == call.args[1]
        IN  IF spec.probability.t # "none"
            THEN "p" \in DOMAIN args /\ args["p"] = spec.probability
            ELSE TRUE

StayedHooks ==
    IF regop.op = "register" /\ regop.stage = stage
    THEN SubSeq(hooks[stage], 1, Len(hooks[stage]) - 1)
    ELSE hooks[stage]

\* The hooks the current call invoked, in order.
InvokedHooks == [k \in 1 .. (Len(started) - entry.from) |-> started[entry.from + k].hook]

\* a is b with at most one element left out.
RECURSIVE WithoutAtMostOne(_, _)
WithoutAtMostOne(a, b) ==
    IF a = b THEN TRUE
    ELSE IF b = <<>> THEN FALSE
    ELSE IF a # <<>> /\ Head(a) = Head(b) THEN WithoutAtMostOne(Tail(a), Tail(b))
    ELSE a = Tail(b)

\* C40: when one register_hook or unregister_hook on the call's stage is
\* made while a hook of an execute_stage call is awaited, and no stopping
\* condition occurs, the call invokes every hook that stayed registered
\* for the whole call exactly once and in registration order (besides
\* them, at most the one hook that was added or removed).
C40_StayingHooksStillRun ==
    (mode = "direct" /\ pc = "returned" /\ NoStoppingCondition /\ Len(started) > entry.from) =>
        WithoutAtMostOne(StayedHooks, InvokedHooks)

====
